---- MODULE Spec2Model ----
(***************************************************************************)
(* A model of precept's hierarchical configuration engine                  *)
(* (src/precept/_configs.py): property descriptors, the Nestable tree,     *)
(* the raw store of a Config root, read_dict / read_file, get_root and the *)
(* serializers.                                                            *)
(*                                                                         *)
(* Python values are pairs <<type tag, text>>, so that 10 and "10" differ  *)
(* the way they do in Python.  A mutable dict that can be aliased lives in *)
(* `heap` and is denoted by a reference; a nested mapping that is only     *)
(* ever read (a descriptor default, the result of a serializer's load, a   *)
(* mapping literal) is a Tree: the set of its dict paths and a function    *)
(* from its leaf paths to values.                                          *)
(***************************************************************************)
EXTENDS Integers, Sequences, FiniteSets, TLC

(***************************************************************************)
(* Values                                                                  *)
(***************************************************************************)
NoneV == <<"none", "">>

undefined == <<"undefined", "">>

IntV(s) == <<"int", s>>

StrV(s) == <<"str", s>>

Ref(a) == <<"ref", a>>

IsRef(v) == v[1] = "ref"

\* The decimal texts int() accepts in this model.
Digits == {"10", "22"}

\* bool(x) of a value, as used by `if default` and `if prop.comment`.
Truthy(v) ==
    CASE v[1] = "none" -> FALSE
      [] v[1] = "int" -> v[2] # "0"
      [] v[1] = "str" -> v[2] # ""
      [] OTHER -> TRUE

(***************************************************************************)
(* Text.  Where the code converts a string (str.lower, str.upper,          *)
(* stringcase.snakecase, len) the string is taken as the sequence of its   *)
(* characters.                                                             *)
(***************************************************************************)
LowerAlpha ==
    <<"a", "b", "c", "d", "e", "f", "g", "h", "i", "j", "k", "l", "m",
      "n", "o", "p", "q", "r", "s", "t", "u", "v", "w", "x", "y", "z">>

UpperAlpha ==
    <<"A", "B", "C", "D", "E", "F", "G", "H", "I", "J", "K", "L", "M",
      "N", "O", "P", "Q", "R", "S", "T", "U", "V", "W", "X", "Y", "Z">>

\* The texts of the declared schema (class names, property names, comments)
\* as characters: a string the code converts is one of these.
KnownTexts ==
    {<<"C", "o", "n", "f">>, <<"N", "e", "t">>, <<"T", "l", "s", "O", "p", "t">>,
     <<"p", "o", "r", "t">>, <<"t", "a", "g">>, <<"a", "d", "d", "r">>,
     <<"v", "e", "r">>,
     <<"R", "o", "o", "t">>, <<"P", "o", "r", "t">>, <<"T", "a", "g">>,
     <<"L", "i", "n", "k">>, <<"A", "d", "d", "r">>, <<"T", "l", "s">>,
     <<"V", "e", "r">>,
     <<"f", "o", "o">>, <<"n">>, <<"k", "e", "y", "s">>,
     <<"d", "o", "n", "t", "_", "e", "x", "i", "s", "t">>,
     <<"_", "h", "i", "d", "d", "e", "n">>}

RECURSIVE Join(_)
Join(cs) == IF cs = <<>> THEN "" ELSE Head(cs) \o Join(Tail(cs))

\* The characters of the string s.
Chars(s) == IF s = "" THEN << >> ELSE CHOOSE cs \in KnownTexts : Join(cs) = s

\* The position of x in the sequence seq.
IndexOf(seq, x) == CHOOSE n \in 1..Len(seq) : seq[n] = x

\* s.lower()
lower(s) ==
    LET isUpper(c) == \E n \in 1..Len(UpperAlpha) : UpperAlpha[n] = c
        low(c) == IF isUpper(c) THEN LowerAlpha[IndexOf(UpperAlpha, c)] ELSE c
    IN Join([n \in 1..Len(Chars(s)) |-> low(Chars(s)[n])])

\* s.upper()
upper(s) ==
    LET isLower(c) == \E n \in 1..Len(LowerAlpha) : LowerAlpha[n] = c
        up(c) == IF isLower(c) THEN UpperAlpha[IndexOf(LowerAlpha, c)] ELSE c
    IN Join([n \in 1..Len(Chars(s)) |-> up(Chars(s)[n])])

\* stringcase.snakecase(s): the first character lowered; then every upper
\* case letter becomes '_' and the letter lowered, every '-', '.' or ' '
\* becomes '_'.
snakecase(s) ==
    LET isUpper(c) == \E n \in 1..Len(UpperAlpha) : UpperAlpha[n] = c
        low(c) == IF isUpper(c) THEN LowerAlpha[IndexOf(UpperAlpha, c)] ELSE c
        RECURSIVE tail(_)
        tail(cs) ==
            IF cs = <<>> THEN ""
            ELSE (IF isUpper(Head(cs)) THEN "_" \o low(Head(cs))
                  ELSE IF Head(cs) \in {"-", ".", " "} THEN "_"
                  ELSE Head(cs)) \o tail(Tail(cs))
    IN IF s = "" THEN "" ELSE low(Head(Chars(s))) \o tail(Tail(Chars(s)))

\* '.'.join(parts)
RECURSIVE DotJoin(_)
DotJoin(parts) ==
    IF parts = <<>> THEN ""
    ELSE IF Len(parts) = 1 THEN parts[1]
    ELSE parts[1] \o "." \o DotJoin(Tail(parts))

(***************************************************************************)
(* dicts and Trees                                                         *)
(***************************************************************************)
EmptyDict == << >>

Put(d, k, v) == [x \in DOMAIN d \cup {k} |-> IF x = k THEN v ELSE d[x]]

\* dict.get(k, undefined)
DGet(d, k) == IF k \in DOMAIN d THEN d[k] ELSE undefined

\* merge(initial, update): dict(initial) then data.update(update).  The copy
\* is shallow: a nested dict of either argument is shared with the result.
merge(initial, update) ==
    [k \in DOMAIN initial \cup DOMAIN update |->
        IF k \in DOMAIN update THEN update[k] ELSE initial[k]]

EmptyTree == [d |-> {}, v |-> << >>]

IsPrefix(q, p) == Len(q) <= Len(p) /\ SubSeq(p, 1, Len(q)) = q

\* The keys of the mapping at dict path q of tree t (q = <<>> is the top).
TKeys(t, q) ==
    {p[Len(q) + 1] : p \in {x \in t.d \cup DOMAIN t.v :
                               Len(x) = Len(q) + 1 /\ IsPrefix(q, x)}}

\* The sub-mapping of t mounted at dict path q.
TSub(t, q) ==
    LET strip(p) == SubSeq(p, Len(q) + 1, Len(p))
        under(S) == {p \in S : Len(p) > Len(q) /\ IsPrefix(q, p)}
    IN [d |-> {strip(p) : p \in under(t.d)},
        v |-> [s \in {strip(p) : p \in under(DOMAIN t.v)} |-> t.v[q \o s]]]

\* t with leaf k |-> val added at the top.
TLeaf(t, k, val) ==
    [d |-> t.d,
     v |-> [p \in DOMAIN t.v \cup {<<k>>} |-> IF p = <<k>> THEN val ELSE t.v[p]]]

\* t with the mapping sub mounted under key k at the top.
TGraft(t, k, sub) ==
    [d |-> t.d \cup {<<k>>} \cup {<<k>> \o p : p \in sub.d},
     v |-> [p \in DOMAIN t.v \cup {<<k>> \o s : s \in DOMAIN sub.v} |->
              IF p \in DOMAIN t.v THEN t.v[p] ELSE sub.v[Tail(p)]]]

\* q[:-1]
Front(q) == SubSeq(q, 1, Len(q) - 1)

\* A fixed enumeration of a finite set.
RECURSIVE SetToSeq(_)
SetToSeq(S) ==
    IF S = {} THEN <<>>
    ELSE LET x == CHOOSE y \in S : TRUE IN <<x>> \o SetToSeq(S \ {x})

(***************************************************************************)
(* The declared schema: a root class with two properties and a child class *)
(* that itself nests a grandchild class, the shape of the ConfigTest       *)
(* fixture of src/tests/test_configs.py.                                   *)
(*                                                                         *)
(*   class Conf(Config):                                                   *)
(*       """Root"""                                                        *)
(*       port = ConfigProperty(default=10, comment='Port',                 *)
(*                             auto_environ=True, auto_global=True)        *)
(*       tag = ConfigProperty(comment='Tag', config_type=str)              *)
(*       class Net(Nestable):                                              *)
(*           """Link"""                                                    *)
(*           addr = ConfigProperty(default='nested', comment='Addr')       *)
(*           class TlsOpt(Nestable):                                       *)
(*               """Tls"""                                                 *)
(*               ver = ConfigProperty(default=10, comment='Ver')           *)
(***************************************************************************)
Conf == "Conf"

Net == "Net"

TlsOpt == "TlsOpt"

Classes == {Conf, Net, TlsOpt}

\* ConfigProperty.__init__
ConfigProperty(default, comment, config_type, environ_name, auto_environ, auto_global) ==
    [kind |-> "prop",
     default |-> default,
     comment |-> comment,
     name |-> "",
     qualified_name |-> "",
     config_type |-> IF config_type # "none" THEN config_type
                     ELSE IF Truthy(default) THEN default[1] ELSE "none",
     environ_name |-> environ_name,
     auto_environ |-> auto_environ,
     auto_global |-> auto_global,
     global_name |-> "",
     nested_cls |-> "",
     tree |-> EmptyTree]

NoProp == ConfigProperty(NoneV, NoneV, "none", "", FALSE, FALSE)

\* The class body, `attributes` as ConfigMeta.__new__ receives it: the
\* properties and the nested classes, under their names, in order.
Body(c) ==
    LET prop(k, p) == [k |-> k, kind |-> "prop", v |-> p, cls |-> ""]
        class(k) == [k |-> k, kind |-> "class", v |-> NoProp, cls |-> k]
    IN CASE c = Conf ->
              << prop("port", ConfigProperty(IntV("10"), StrV("Port"), "none", "", TRUE, TRUE)),
                 prop("tag", ConfigProperty(NoneV, StrV("Tag"), "str", "", FALSE, FALSE)),
                 class(Net) >>
         [] c = Net ->
              << prop("addr", ConfigProperty(StrV("nested"), StrV("Addr"), "none", "", FALSE, FALSE)),
                 class(TlsOpt) >>
         [] c = TlsOpt ->
              << prop("ver", ConfigProperty(IntV("10"), StrV("Ver"), "none", "", FALSE, FALSE)) >>

\* The class docstring (None when there is none).
Doc(c) ==
    CASE c = Conf -> StrV("Root")
      [] c = Net -> StrV("Link")
      [] c = TlsOpt -> StrV("Tls")

\* The class config_factory returns for the whole mapping (every class it
\* makes is named _Wrapped; here the class made for a nested mapping has
\* the keys of the mapping after the name).
Wrapped == "_Wrapped"

\* issubclass(c, Config)
IsConfig(c) == c \in {Conf, Wrapped}

\* ConfigMeta.__new__: the key a class-body entry is registered under.
EntryKey(e) == IF e.kind = "class" THEN snakecase(e.k) ELSE e.k

\* ConfigProperty.__set_name__
set_name(prop, owner, name) ==
    LET qn == IF ~IsConfig(owner) THEN lower(owner) \o "." \o name ELSE name
    IN [prop EXCEPT
          !.name = name,
          !.qualified_name = qn,
          !.environ_name = IF prop.environ_name = "" /\ prop.auto_environ
                           THEN upper(name) ELSE prop.environ_name,
          !.global_name = IF prop.global_name = "" /\ prop.auto_global
                          THEN qn ELSE prop.global_name]

\* _NestableDescriptor.__init__: the default is the mapping of the nested
\* class's properties to their defaults.
RECURSIVE NestableDefault(_)
NestableDefault(c) ==
    LET RECURSIVE build(_, _)
        build(n, acc) ==
            IF n > Len(Body(c)) THEN acc
            ELSE IF Body(c)[n].kind = "class"
            THEN build(n + 1, TGraft(acc, EntryKey(Body(c)[n]),
                                     NestableDefault(Body(c)[n].cls)))
            ELSE build(n + 1, TLeaf(acc, EntryKey(Body(c)[n]), Body(c)[n].v.default))
    IN build(1, EmptyTree)

\* ConfigMeta.__new__ for class c: `_props`, the keys in declaration order
\* (the bases, Config and Nestable, contribute none); `_children`, the
\* nested classes; `_key`, set on a nested class by the metaclass of the
\* enclosing class ("" stands for a class that has none, the root); and,
\* in `dict`, the descriptor class creation leaves under each key, after the
\* __set_name__ it applies.
ConfigMeta_new(c) ==
    LET isClass(e) == e.kind = "class"
        nestable(e) == [ConfigProperty(NoneV, Doc(e.cls), "dict", "", FALSE, FALSE) EXCEPT
                           !.kind = "nestable",
                           !.nested_cls = e.cls,
                           !.tree = NestableDefault(e.cls)]
        descriptor(e) == IF isClass(e) THEN set_name(nestable(e), c, EntryKey(e))
                         ELSE set_name(e.v, c, e.k)
        entry(key) == Body(c)[CHOOSE m \in 1..Len(Body(c)) : EntryKey(Body(c)[m]) = key]
    IN [_props |-> [n \in 1..Len(Body(c)) |-> EntryKey(Body(c)[n])],
        _children |-> [n \in 1..Len(SelectSeq(Body(c), isClass)) |->
                          SelectSeq(Body(c), isClass)[n].cls],
        _key |-> IF \E o \in Classes : \E n \in 1..Len(Body(o)) :
                       isClass(Body(o)[n]) /\ Body(o)[n].cls = c
                 THEN snakecase(c)
                 ELSE "",
        dict |-> [k \in {EntryKey(Body(c)[n]) : n \in 1..Len(Body(c))} |->
                    descriptor(entry(k))]]

(***************************************************************************)
(* config_factory(data, root, key): the classes made for the mapping data  *)
(* and for the mappings nested in it.  `root` is the name of the class of  *)
(* the enclosing call ("" for None).  The properties are set on the class  *)
(* after it was created, so __set_name__ does not run: a property has the  *)
(* name it was constructed with and no qualified name.  (A Tree keeps no   *)
(* order of its keys; _props is in a fixed order.)                         *)
(***************************************************************************)
RECURSIVE config_factory_nodefault(_, _, _)
\* config_factory making the properties without their default.
config_factory_nodefault(data, root, key) ==
    LET cls == IF root = "" THEN Wrapped ELSE root \o "." \o key
        keys == SetToSeq(TKeys(data, << >>))
        isDict(k) == <<k>> \in data.d
        nestable(k) ==
            [ConfigProperty(NoneV, NoneV, "dict", "", FALSE, FALSE) EXCEPT
                !.kind = "nestable", !.name = k,
                !.nested_cls = cls \o "." \o k, !.tree = TSub(data, <<k>>)]
        prop(k) ==
            [ConfigProperty(NoneV, NoneV, "none", "", FALSE, FALSE) EXCEPT
                !.name = k]
        RECURSIVE below(_)
        below(ks) ==
            IF ks = << >> THEN << >>
            ELSE config_factory_nodefault(TSub(data, <<Head(ks)>>), cls, Head(ks))
                 @@ below(Tail(ks))
    IN (cls :> [_props |-> keys,
                _children |-> [n \in 1..Len(SelectSeq(keys, isDict)) |->
                                 cls \o "." \o SelectSeq(keys, isDict)[n]],
                _key |-> key,
                dict |-> [k \in TKeys(data, << >>) |->
                            IF isDict(k) THEN nestable(k) ELSE prop(k)]])
       @@ below(SelectSeq(keys, isDict))

RECURSIVE config_factory(_, _, _)
config_factory(data, root, key) ==
    LET cls == IF root = "" THEN Wrapped ELSE root \o "." \o key
        \* `for k, v in data.items()`
        keys == SetToSeq(TKeys(data, << >>))
        \* isinstance(v, dict)
        isDict(k) == <<k>> \in data.d
        \* _NestableDescriptor(f'_{k}', list(v.keys()), nestable): the
        \* default is the mapping of the nested class's properties to
        \* their defaults, the nested mapping itself.
        nestable(k) ==
            [ConfigProperty(NoneV, NoneV, "dict", "", FALSE, FALSE) EXCEPT
                !.kind = "nestable", !.name = k,
                !.nested_cls = cls \o "." \o k, !.tree = TSub(data, <<k>>)]
        \* ConfigProperty(name=k, default=v)
        prop(k) ==
            [ConfigProperty(data.v[<<k>>], NoneV, "none", "", FALSE, FALSE) EXCEPT
                !.name = k]
        \* nestable = config_factory(v, _Current, k)
        RECURSIVE below(_)
        below(ks) ==
            IF ks = << >> THEN << >>
            ELSE config_factory(TSub(data, <<Head(ks)>>), cls, Head(ks))
                 @@ below(Tail(ks))
    IN (cls :> [_props |-> keys,
                _children |-> [n \in 1..Len(SelectSeq(keys, isDict)) |->
                                 cls \o "." \o SelectSeq(keys, isDict)[n]],
                _key |-> key,
                dict |-> [k \in TKeys(data, << >>) |->
                            IF isDict(k) THEN nestable(k) ELSE prop(k)]])
       @@ below(SelectSeq(keys, isDict))

(***************************************************************************)
(* State                                                                   *)
(***************************************************************************)
VARIABLES
    classes,    \* the class objects ConfigMeta created: _props, _key, descriptors
    nodes,      \* the Nestable objects: class and _parent of each
    data,       \* Config._data of each root: its raw store (a dict)
    app,        \* Config._app of each root: TRUE when a host is attached
    heap,       \* the nested dict objects, by address
    held,       \* the mapping object the caller last passed to read_dict
    environ,    \* os.environ
    globals,    \* app.cli.globals of the host
    file,       \* the file written by the last save
    config_format, \* Config._config_format of each root
    last,       \* the last call made and what it returned or raised
    reads,      \* what a read of each property returns in this state
    run,        \* the host application: its services and one run of start
    imm,        \* an ImmutableDict and the last operation made on it
    bus,        \* an EventDispatcher: its subscribers and one dispatch
    pool        \* an AsyncExecutor: its lock and the calls made on it

\* The state of the configuration objects.
configs == <<classes, nodes, data, app, heap, held, environ, globals, file, config_format, last, reads>>

vars == <<configs, run, imm, bus, pool>>

Props(c) == classes[c]._props

KeyOf(c) == classes[c]._key

\* hasattr(cls, key) / getattr(cls, key) for the registered keys.
HasAttr(c, key) == key \in DOMAIN classes[c].dict

Attr(c, key) == classes[c].dict[key]

\* The configuration instances the caller holds.
Inst == {"cfg1", "cfg2"}

NoObj == <<"", "">>

\* The object of class c in the tree of root i.
Obj(i, c) == <<i, c>>

\* The number of dict objects that can be alive at once.
MaxObjects == 10

\* The addresses of the dict objects.
AddrSeq == [n \in 1..MaxObjects |-> "o" \o ToString(n)]

(***************************************************************************)
(* Nestable.__init__ / Config.__init__: the objects of one tree, children  *)
(* instantiated eagerly with _parent set to the object that owns them.     *)
(***************************************************************************)
RECURSIVE NestableInit(_, _, _)
NestableInit(i, c, par) ==
    LET RECURSIVE kids(_)
        kids(n) == IF n > Len(classes[c]._children) THEN << >>
                   ELSE NestableInit(i, classes[c]._children[n], Obj(i, c)) @@ kids(n + 1)
    IN (Obj(i, c) :> [cls |-> c, parent |-> par]) @@ kids(1)

\* The object of the tree of root i that is reached by the keys class c is
\* mounted under: cfg for the root class, cfg.net for the class under net.
At(i, c) ==
    LET RECURSIVE keys(_)
        keys(x) ==
            IF KeyOf(x) = "" THEN << >>
            ELSE Append(keys(CHOOSE o \in DOMAIN classes :
                                \E n \in 1..Len(classes[o]._children) :
                                   classes[o]._children[n] = x),
                        KeyOf(x))
    IN CHOOSE o \in DOMAIN nodes : o[1] = i /\ keys(nodes[o].cls) = keys(c)

(***************************************************************************)
(* Nestable.get_root                                                       *)
(***************************************************************************)
\* get_root_walk returning the levels as collected, innermost first.
RECURSIVE get_root_walk_unreversed(_, _, _)
get_root_walk_unreversed(par, last_parent, levels) ==
    IF par = NoObj THEN [root |-> last_parent, levels |-> levels]
    ELSE get_root_walk_unreversed(nodes[par].parent, par,
                                  IF KeyOf(nodes[par].cls) # ""
                                  THEN Append(levels, KeyOf(nodes[par].cls))
                                  ELSE levels)

\* The while loop of get_root: collect the _key of every ancestor that has
\* one, remember the last ancestor seen; the levels are returned reversed.
RECURSIVE get_root_walk(_, _, _)
get_root_walk(par, last_parent, levels) ==
    IF par = NoObj
    THEN [root |-> last_parent,
          levels |-> [n \in 1..Len(levels) |-> levels[Len(levels) + 1 - n]]]
    ELSE get_root_walk(nodes[par].parent, par,
                       IF KeyOf(nodes[par].cls) # ""
                       THEN Append(levels, KeyOf(nodes[par].cls))
                       ELSE levels)

\* get_root(self, current); current = "" stands for None.  On the root the
\* code returns the root alone: levels is then empty.
get_root(self, current) ==
    IF nodes[self].parent = NoObj THEN [root |-> self, levels |-> << >>]
    ELSE get_root_walk(nodes[self].parent, nodes[self].parent,
                       IF current # "" THEN <<current, KeyOf(nodes[self].cls)>>
                       ELSE <<KeyOf(nodes[self].cls)>>)

(***************************************************************************)
(* The heap of dict objects                                                *)
(***************************************************************************)
\* Build the mapping `tree` out of new dict objects.  With top = TRUE the
\* mapping itself is a new object too (copy.deepcopy of a default, the {}
\* read_file creates for a nested mapping); otherwise only its nested
\* mappings are.  Returns the top dict, its address and the new heap.
Alloc(tree, h, top) ==
    LET P == tree.d \cup (IF top THEN {<< >>} ELSE {})
        isFree(a) == a \notin DOMAIN h
        addr == [q \in P |-> SelectSeq(AddrSeq, isFree)[IndexOf(SetToSeq(P), q)]]
        object(q) == [k \in TKeys(tree, q) |->
                        IF (q \o <<k>>) \in tree.d THEN Ref(addr[q \o <<k>>])
                        ELSE tree.v[q \o <<k>>]]
    IN [dict |-> object(<< >>),
        ref |-> IF top THEN Ref(addr[<< >>]) ELSE undefined,
        heap |-> [a \in DOMAIN h \cup {addr[q] : q \in P} |->
                    IF a \in DOMAIN h THEN h[a]
                    ELSE object(CHOOSE q \in P : addr[q] = a)]]

\* The mapping a dict denotes, aliasing forgotten.
RECURSIVE View(_, _)
View(d, h) ==
    LET RECURSIVE build(_, _)
        build(ks, acc) ==
            IF ks = {} THEN acc
            ELSE LET k == CHOOSE x \in ks : TRUE
                 IN build(ks \ {k},
                          IF IsRef(d[k]) THEN TGraft(acc, k, View(h[d[k][2]], h))
                          ELSE TLeaf(acc, k, d[k]))
    IN build(DOMAIN d, EmptyTree)

\* The addresses reachable from dict d that are not in `seen`, appended to
\* `seen` in the order a depth-first walk meets them.
RECURSIVE Reach(_, _, _)
Reach(d, h, seen) ==
    LET RECURSIVE walk(_, _)
        walk(ks, acc) ==
            IF ks = << >> THEN acc
            ELSE LET v == d[Head(ks)]
                 IN IF ~IsRef(v) \/ (\E n \in 1..Len(acc) : acc[n] = v[2])
                    THEN walk(Tail(ks), acc)
                    ELSE walk(Tail(ks), Reach(h[v[2]], h, Append(acc, v[2])))
    IN walk(SetToSeq(DOMAIN d), seen)

\* The dict objects somebody still holds (a root through its raw store, the
\* caller through the mapping it kept); the others are dropped.  An address
\* is only the name of an object: the objects are renamed in the order a
\* walk from the roots meets them, so that two heaps that differ by the
\* names alone are one state.
Collect(h, dt, hd) ==
    LET RECURSIVE roots(_, _)
        roots(is, acc) ==
            IF is = << >> THEN acc
            ELSE roots(Tail(is), Reach(dt[Head(is)], h, acc))
        renamed(d, ren) ==
            [k \in DOMAIN d |-> IF IsRef(d[k]) THEN Ref(ren[d[k][2]]) ELSE d[k]]
        compact(live, ren) ==
            [data |-> [i \in Inst |-> renamed(dt[i], ren)],
             held |-> renamed(hd, ren),
             heap |-> [b \in {AddrSeq[n] : n \in 1..Len(live)} |->
                         renamed(h[live[IndexOf(AddrSeq, b)]], ren)]]
        numbered(live) ==
            compact(live, [a \in {live[n] : n \in 1..Len(live)} |->
                             AddrSeq[IndexOf(live, a)]])
    IN numbered(Reach(hd, h, roots(SetToSeq(Inst), << >>)))

(***************************************************************************)
(* Config.__getitem__ and get_deep.  Every operation returns the value or  *)
(* the error it raises, together with the raw store and the heap it leaves. *)
(***************************************************************************)
Result(val, err, d, h) == [val |-> val, err |-> err, data |-> d, heap |-> h]

\* Config.__getitem__(self, k), self of class c with raw store d.  For a
\* nested key that is missing, data = copy.deepcopy(prop.default) is stored
\* and returned.
Config_getitem(c, d, h, k) ==
    LET stored(copy) == Result(copy.ref, "", Put(d, k, copy.ref), copy.heap)
    IN IF ~HasAttr(c, k) THEN Result(undefined, "AttributeError", d, h)
       ELSE IF Attr(c, k).kind = "nestable"
       THEN IF k \in DOMAIN d THEN Result(d[k], "", d, h)
            ELSE stored(Alloc(Attr(c, k).tree, h, TRUE))
       ELSE Result(IF k \in DOMAIN d THEN d[k] ELSE Attr(c, k).default, "", d, h)

\* The loop of get_deep below the root: dict.get(key, undefined) per level.
RECURSIVE get_deep_walk(_, _, _)
get_deep_walk(value, keys, h) ==
    IF keys = << >> THEN [val |-> value, found |-> TRUE, err |-> ""]
    ELSE IF ~IsRef(value) THEN [val |-> undefined, found |-> FALSE, err |-> "AttributeError"]
    ELSE IF DGet(h[value[2]], Head(keys)) = undefined
    THEN [val |-> NoneV, found |-> FALSE, err |-> ""]
    ELSE get_deep_walk(h[value[2]][Head(keys)], Tail(keys), h)

\* get_deep(root, *levels): the first level goes through Mapping.get of the
\* root, that is Config.__getitem__; the others are plain dicts.  The value
\* when found, else the default given to get_deep, None.
get_deep(c, d, h, levels) ==
    LET ended(first, rest) ==
            Result(rest.val, rest.err, first.data, first.heap) @@ [found |-> rest.found]
        below(first) ==
            IF first.err # ""
            THEN Result(undefined, first.err, first.data, first.heap) @@ [found |-> FALSE]
            ELSE ended(first, get_deep_walk(first.val, Tail(levels), first.heap))
    IN below(Config_getitem(c, d, h, Head(levels)))

\* config_type(value) for the declared types; int() of a text that is not
\* a number raises ValueError, int() of a dict raises TypeError.
Convert(config_type, value) ==
    CASE config_type = "int" /\ value[1] = "str" ->
            IF value[2] \in Digits THEN [val |-> IntV(value[2]), err |-> ""]
            ELSE [val |-> value, err |-> "ValueError"]
      [] config_type = "int" /\ IsRef(value) -> [val |-> value, err |-> "TypeError"]
      [] config_type = "str" /\ value[1] = "int" -> [val |-> StrV(value[2]), err |-> ""]
      [] OTHER -> [val |-> value, err |-> ""]

(***************************************************************************)
(* ConfigProperty.__get__(self, instance, owner): property `name` read on  *)
(* object o, in the state st of its tree: the raw store of the root, the   *)
(* heap, os.environ, the globals of the host and whether one is attached.  *)
(***************************************************************************)
\* The value of the host's globals, taken even when it equals the default.
get_global_any(self, st) == DGet(st.globals, self.qualified_name)

\* value = app.cli.globals.get(self.qualified_name, undefined), dropped
\* when it equals the default.
get_global(self, st) ==
    IF DGet(st.globals, self.qualified_name) # undefined
       /\ DGet(st.globals, self.qualified_name) = self.default
    THEN undefined
    ELSE DGet(st.globals, self.qualified_name)

ConfigProperty_get(st, o, name) ==
    LET self == Attr(nodes[o].cls, name)
        \* getattr(instance, '_app', None): only a root carries _app.
        has_app == IsConfig(nodes[o].cls) /\ st.app
        \* os.getenv(self.environ_name, undefined)
        from_environ(value) ==
            IF self.environ_name # "" /\ value = undefined
            THEN DGet(st.environ, self.environ_name)
            ELSE value
        \* `if not found: value = self.default`
        found(deep) ==
            Result(IF deep.found THEN deep.val ELSE self.default,
                   deep.err, deep.data, deep.heap)
        \* root, levels = instance.get_root(self.name)
        nested(rl) == found(get_deep(nodes[rl.root].cls, st.data, st.heap, rl.levels))
        \* `if value is undefined`: the raw store is consulted
        from_store(value) ==
            IF value # undefined THEN Result(value, "", st.data, st.heap)
            ELSE IF IsConfig(nodes[o].cls)
            THEN \* instance.get(self.name, self.default)
                 Config_getitem(nodes[o].cls, st.data, st.heap, name)
            ELSE nested(get_root(o, name))
        \* `except TypeError as err: raise ConfigError(...) from err`
        wrapped(err) == IF err = "TypeError" THEN "ConfigError" ELSE err
        \* `if value is not None and self.config_type is not None`
        typed(r) ==
            IF r.err # "" THEN r
            ELSE IF r.val # NoneV /\ self.config_type # "none"
            THEN Result(Convert(self.config_type, r.val).val,
                        wrapped(Convert(self.config_type, r.val).err), r.data, r.heap)
            ELSE r
    IN typed(from_store(from_environ(IF self.auto_global /\ has_app
                                     THEN get_global(self, st)
                                     ELSE undefined)))

(***************************************************************************)
(* ConfigProperty.__set__(self, instance, value)                           *)
(***************************************************************************)
\* `current = current[level]` on plain dicts, for the levels below the first.
RECURSIVE set_walk(_, _, _)
set_walk(current, levels, h) ==
    IF levels = << >> THEN [cur |-> current, err |-> ""]
    ELSE IF ~IsRef(current) THEN [cur |-> current, err |-> "TypeError"]
    ELSE IF Head(levels) \notin DOMAIN h[current[2]] THEN [cur |-> current, err |-> "KeyError"]
    ELSE set_walk(h[current[2]][Head(levels)], Tail(levels), h)

\* ConfigProperty.__set__ storing under the bare name in the root's raw
\* store, whatever node the property belongs to.
ConfigProperty_set_flat(st, o, name, value) ==
    Result(NoneV, "", Put(st.data, name, value), st.heap)

\* ConfigProperty.__set__ making the raw store anew with the value alone.
ConfigProperty_set_alone(st, o, name, value) ==
    Result(NoneV, "", Put(EmptyDict, name, value), st.heap)

ConfigProperty_set(st, o, name, value) ==
    LET \* current[self.name] = value, w being where the loop ended
        item(first, w) ==
            IF w.err # "" THEN Result(NoneV, w.err, first.data, first.heap)
            ELSE IF ~IsRef(w.cur) THEN Result(NoneV, "TypeError", first.data, first.heap)
            ELSE Result(NoneV, "", first.data,
                        [first.heap EXCEPT ![w.cur[2]] = Put(@, name, value)])
        \* `for level in list(levels)[:-1]: current = current[level]`, first
        \* being root[level] for the first level: Config.__getitem__
        levels(first, upto) ==
            IF first.err # "" THEN first
            ELSE item(first, set_walk(first.val, Tail(upto), first.heap))
        \* root, levels = instance.get_root(self.name)
        nested(rl) ==
            levels(Config_getitem(nodes[rl.root].cls, st.data, st.heap, Head(rl.levels)),
                   Front(rl.levels))
    IN IF IsConfig(nodes[o].cls)
       THEN Result(NoneV, "", Put(st.data, name, value), st.heap)
       ELSE nested(get_root(o, name))

(***************************************************************************)
(* Config.read_dict and Config.read_file                                   *)
(***************************************************************************)
\* read_dict merging the other way round: the stored values win.
read_dict_keepold(d, mapping) == merge(mapping, d)

\* read_dict(self, data): self._data = merge(self._data, data)
read_dict(d, mapping) == merge(d, mapping)

\* handle_prop keeping the default, not the user's value, for a customized
\* leaf.
handle_prop_wrongvar(key, value, default, to_update, original) ==
    IF DGet(original, key) # undefined /\ DGet(original, key) # default
    THEN TLeaf(to_update, key, default)
    ELSE TLeaf(to_update, key, value)

\* handle_prop keeping a stored value that equals the default.
handle_prop_keepdefault(key, value, default, to_update, original) ==
    IF DGet(original, key) = default
    THEN TLeaf(to_update, key, DGet(original, key))
    ELSE TLeaf(to_update, key, value)

\* handle_prop keeping whatever the user stored, the default too.
handle_prop_keepstored(key, value, default, to_update, original) ==
    IF DGet(original, key) # undefined
    THEN TLeaf(to_update, key, DGet(original, key))
    ELSE TLeaf(to_update, key, value)

\* handle_prop of read_file
handle_prop(key, value, default, to_update, original) ==
    IF DGet(original, key) # undefined /\ DGet(original, key) # default
    THEN TLeaf(to_update, key, DGet(original, key))
    ELSE TLeaf(to_update, key, value)

\* handle_dict of read_file: root is the loaded mapping at this level,
\* parent the descriptor of the node it belongs to (kind "none" for None),
\* orig the raw store at this level.  Returns the `updatable` it fills, or
\* the error raised.
RECURSIVE handle_dict(_, _, _, _, _)
handle_dict(c, root, parent, orig, h) ==
    LET top == parent.kind = "none"
        owner == IF top THEN c ELSE parent.nested_cls
        known(key) == owner \in DOMAIN classes /\ HasAttr(owner, key)
        \* orig.get(key, {})
        below(key) == IF IsRef(DGet(orig, key)) THEN h[orig[key][2]] ELSE EmptyDict
        \* parent.default.get(key), prop.default on the root
        default(key) ==
            IF top THEN (IF Attr(owner, key).kind = "nestable" THEN <<"dict", "">>
                         ELSE Attr(owner, key).default)
            ELSE IF <<key>> \in DOMAIN parent.tree.v THEN parent.tree.v[<<key>>]
            ELSE IF <<key>> \in parent.tree.d THEN <<"dict", "">>
            ELSE NoneV
        \* updatable[key] = {}; handle_dict(value, prop, updatable[key], ...)
        nested(acc, key, sub) ==
            IF DGet(orig, key) # undefined /\ ~IsRef(orig[key]) /\ TKeys(root, <<key>>) # {}
            THEN [tree |-> acc.tree, err |-> "AttributeError"]
            ELSE IF sub.err # "" THEN [tree |-> acc.tree, err |-> sub.err]
            ELSE [tree |-> TGraft(acc.tree, key, sub.tree), err |-> ""]
        step(acc, key) ==
            IF top /\ ~known(key) THEN acc
            ELSE IF ~known(key) THEN [tree |-> acc.tree, err |-> "AttributeError"]
            ELSE IF <<key>> \in root.d
            THEN nested(acc, key,
                        handle_dict(c, TSub(root, <<key>>), Attr(owner, key), below(key), h))
            ELSE [tree |-> handle_prop(key, root.v[<<key>>], default(key), acc.tree, orig),
                  err |-> ""]
        RECURSIVE loop(_, _)
        loop(ks, acc) ==
            IF ks = << >> \/ acc.err # "" THEN acc
            ELSE loop(Tail(ks), step(acc, Head(ks)))
    IN loop(SetToSeq(TKeys(root, << >>)), [tree |-> EmptyTree, err |-> ""])

\* read_file(self, path): `loaded` is what self._serializer.load(path)
\* returned or raised; then handle_dict(data, None, updated, self._data)
\* and self._data = merge(self._data, updated), the nested mappings of
\* `updated` being new dicts.
read_file(c, d, h, loaded) ==
    LET merged(built) == Result(NoneV, "", merge(d, built.dict), built.heap)
        updated(upd) ==
            IF upd.err # "" THEN Result(NoneV, upd.err, d, h)
            ELSE merged(Alloc(upd.tree, h, FALSE))
    IN IF loaded.err # "" THEN Result(NoneV, loaded.err, d, h)
       ELSE updated(handle_dict(c, loaded.tree, [NoProp EXCEPT !.kind = "none"], d, h))

(***************************************************************************)
(* Nestable.get_prop_paths(self, parent): the (path, value, descriptor)    *)
(* triples of an object, depth first.  The value of a leaf is what         *)
(* getattr returns, a read through ConfigProperty.__get__, which can       *)
(* change the raw store; the value of a child key is the child object.     *)
(* A path is kept as the sequence of its keys: the code joins them with    *)
(* '.' and its callers split the path at '.' again.                        *)
(***************************************************************************)
\* get_prop_paths that yields the triple of a child node and not the
\* triples of its subtree.
get_prop_paths_level(st, o, parent) ==
    LET c == nodes[o].cls
        item(prop, nestable, value) ==
            [path |-> Append(parent, prop.name), nestable |-> nestable,
             value |-> value, prop |-> prop]
        step(acc, prop, r) ==
            IF prop.kind = "nestable"
            THEN [acc EXCEPT !.items = Append(@, item(prop, TRUE, NoneV))]
            ELSE [items |-> IF r.err = "" THEN Append(acc.items, item(prop, FALSE, r.val))
                            ELSE acc.items,
                  data |-> r.data, heap |-> r.heap, err |-> r.err]
        RECURSIVE loop(_, _)
        loop(n, acc) ==
            IF n > Len(Props(c)) \/ acc.err # "" THEN acc
            ELSE loop(n + 1,
                      step(acc, Attr(c, Props(c)[n]),
                           ConfigProperty_get([st EXCEPT !.data = acc.data,
                                                         !.heap = acc.heap],
                                              o, Props(c)[n])))
    IN loop(1, [items |-> << >>, data |-> st.data, heap |-> st.heap, err |-> ""])

RECURSIVE get_prop_paths(_, _, _)
get_prop_paths(st, o, parent) ==
    LET c == nodes[o].cls
        now(acc) == [st EXCEPT !.data = acc.data, !.heap = acc.heap]
        item(prop, nestable, value) ==
            [path |-> Append(parent, prop.name), nestable |-> nestable,
             value |-> value, prop |-> prop]
        \* yield path, value, prop, then the triples of the child
        child(acc, prop, sub) ==
            [items |-> Append(acc.items, item(prop, TRUE, NoneV)) \o sub.items,
             data |-> sub.data, heap |-> sub.heap, err |-> sub.err]
        \* yield path, value, prop: r is what getattr(self, prop.name) gave
        leaf(acc, prop, r) ==
            [items |-> IF r.err = "" THEN Append(acc.items, item(prop, FALSE, r.val))
                       ELSE acc.items,
             data |-> r.data, heap |-> r.heap, err |-> r.err]
        step(acc, prop) ==
            IF prop.kind = "nestable"
            THEN child(acc, prop,
                       get_prop_paths(now(acc), Obj(o[1], prop.nested_cls),
                                      Append(parent, prop.name)))
            ELSE leaf(acc, prop, ConfigProperty_get(now(acc), o, prop.name))
        RECURSIVE loop(_, _)
        loop(n, acc) ==
            IF n > Len(Props(c)) \/ acc.err # "" THEN acc
            ELSE loop(n + 1, step(acc, Attr(c, Props(c)[n])))
    IN loop(1, [items |-> << >>, data |-> st.data, heap |-> st.heap, err |-> ""])

(***************************************************************************)
(* Serializers.  A file is the sequence of its lines.  A line is the       *)
(* header of a section, table or nested mapping, a key with the value as   *)
(* it is written, a comment, or a blank line; `at` is the key path of the  *)
(* mapping the line lies in (what a section name, a table header, an       *)
(* indentation or a brace nesting tells a parser).  A written value is a   *)
(* token <<style, text>>: the text and whether it is quoted.               *)
(***************************************************************************)
NoTok == <<"", "">>

Line(kind, at, key, val, com) ==
    [kind |-> kind, at |-> at, key |-> key, val |-> val, com |-> com]

\* The nested mapping a parser builds from headers and key/value lines;
\* the leaves are the tokens as written.
TokenTree(lines) ==
    LET heads == {n \in 1..Len(lines) : lines[n].kind = "header"}
        pairs == {n \in 1..Len(lines) : lines[n].kind = "pair"}
        where(n) == Append(lines[n].at, lines[n].key)
        latest(p) == CHOOSE n \in pairs :
                        where(n) = p /\ \A m \in pairs : where(m) = p => m <= n
    IN [d |-> UNION {{SubSeq(lines[n].at, 1, k) : k \in 1..Len(lines[n].at)} : n \in heads},
        v |-> [p \in {where(n) : n \in pairs} |-> lines[latest(p)].val]]

(***************************************************************************)
(* IniConfigSerializer                                                     *)
(***************************************************************************)
\* Config.__init__: root_name='config'
root_name == "config"

\* str(value)
str(v) == IF v = NoneV THEN "None" ELSE v[2]

\* IniConfigSerializer.dump, given the triples of get_prop_paths and the
\* docstring of the root class.  cfg is the ConfigParser: the sections in
\* order, each with its options in order.  (No property of the schema
\* holds a list.)
IniDump(doc, items) ==
    LET \* cfg.setdefault(section, {})
        setdefault(cfg, name) ==
            IF \E n \in 1..Len(cfg) : cfg[n].name = name THEN cfg
            ELSE Append(cfg, [name |-> name, opts |-> << >>])
        \* An option that is already in the section is replaced.
        put(cfg, name, opt) ==
            [n \in 1..Len(cfg) |->
               IF cfg[n].name # name THEN cfg[n]
               ELSE IF \E m \in 1..Len(cfg[n].opts) :
                          cfg[n].opts[m].com = opt.com /\ cfg[n].opts[m].key = opt.key
               THEN [cfg[n] EXCEPT !.opts =
                        [m \in 1..Len(@) |->
                           IF @[m].com = opt.com /\ @[m].key = opt.key THEN opt ELSE @[m]]]
               ELSE [cfg[n] EXCEPT !.opts = Append(@, opt)]]
        \* cfg.set(section, option, value) and cfg[section][option] = value:
        \* the option name goes through optionxform, str.lower.  com tells
        \* the option f'# {comment}', set with value None.
        set(cfg, name, com, text, value) ==
            put(cfg, name, [com |-> com, key |-> lower(text), val |-> value])
        RECURSIVE comments(_, _, _)
        comments(cfg, name, cs) ==
            IF cs = << >> THEN cfg
            ELSE comments(set(cfg, name, TRUE, Head(cs), ""), name, Tail(cs))
        \* '.'.join(p.split('.')[:-1]) or root_name
        top(it) == IF Len(it.path) > 1 THEN Front(it.path) ELSE <<root_name>>
        \* A leaf: the comments kept since the last leaf and its own are set
        \* before it in its section, then the value as str(value).
        leaf(cfg, it, leftovers) ==
            set(IF Truthy(it.prop.comment)
                THEN comments(cfg, top(it), Append(leftovers, it.prop.comment[2]))
                ELSE cfg,
                top(it), FALSE, it.prop.name, str(it.value))
        \* `for p, value, prop in configs.get_prop_paths()`
        RECURSIVE loop(_, _, _)
        loop(n, cfg, leftovers) ==
            IF n > Len(items) THEN cfg
            ELSE IF items[n].nestable
            THEN loop(n + 1, setdefault(cfg, top(items[n])),
                      IF Truthy(items[n].prop.comment) THEN <<items[n].prop.comment[2]>>
                      ELSE leftovers)
            ELSE loop(n + 1, leaf(setdefault(cfg, top(items[n])), items[n], leftovers),
                      IF Truthy(items[n].prop.comment) THEN << >> ELSE leftovers)
        \* cfg.write(f): a header per section, then its options; an option
        \* whose value is None is written as its name alone.
        RECURSIVE options(_, _)
        options(name, os) ==
            IF os = << >> THEN << >>
            ELSE <<IF Head(os).com
                   THEN Line("comment", name, "", NoTok, Head(os).key)
                   ELSE Line("pair", name, Head(os).key, <<"plain", Head(os).val>>, "")>>
                 \o options(name, Tail(os))
        RECURSIVE write(_)
        write(cfg) ==
            IF cfg = << >> THEN << >>
            ELSE <<Line("header", Head(cfg).name, "", NoTok, "")>>
                 \o options(Head(cfg).name, Head(cfg).opts) \o write(Tail(cfg))
    IN write(loop(1,
                  IF Truthy(doc)
                  THEN comments(setdefault(<< >>, <<root_name>>), <<root_name>>, <<doc[2]>>)
                  ELSE << >>,
                  << >>))

\* IniConfigSerializer.load: ConfigParser reads every value as text, skips
\* the comment lines and lowers the option names; the section named
\* root_name becomes the top mapping and every other section is stored
\* under its dotted name.
IniLoad(lines) ==
    LET isHead(l) == l.kind = "header"
        \* The options of a section as ConfigParser gives them.
        key(n) == <<lower(lines[n].key)>>
        pairs(name) == {n \in 1..Len(lines) : lines[n].kind = "pair" /\ lines[n].at = name}
        section(name) ==
            [p \in {key(n) : n \in pairs(name)} |->
                StrV(lines[CHOOSE n \in pairs(name) : key(n) = p].val[2])]
        \* data[k] = v: whatever is at the dotted name q is replaced by the
        \* section, the levels above created when missing.
        stored(t, q) ==
            [d |-> {p \in t.d : ~IsPrefix(q, p)} \cup {SubSeq(q, 1, n) : n \in 1..Len(q)},
             v |-> [p \in {x \in DOMAIN t.v : ~IsPrefix(q, x)}
                          \cup {q \o r : r \in DOMAIN section(q)} |->
                      IF IsPrefix(q, p) THEN section(q)[SubSeq(p, Len(q) + 1, Len(p))]
                      ELSE t.v[p]]]
        \* `for k, v in cfg.items()`
        RECURSIVE sections(_, _)
        sections(ns, acc) ==
            IF ns = << >> THEN acc
            ELSE IF Head(ns).at = <<root_name>> THEN sections(Tail(ns), acc)
            ELSE sections(Tail(ns), stored(acc, Head(ns).at))
    IN IF \A n \in 1..Len(lines) : isHead(lines[n]) => lines[n].at # <<root_name>>
       THEN [tree |-> EmptyTree, err |-> "KeyError"]
       ELSE [tree |-> sections(SelectSeq(lines, isHead),
                               [d |-> {}, v |-> section(<<root_name>>)]),
             err |-> ""]

(***************************************************************************)
(* TomlConfigSerializer                                                    *)
(***************************************************************************)
\* `if len(prop.comment) > 40`: only short comments are inlined.
InlineMax == 40

\* TomlConfigSerializer.dump
TomlDump(doc, items) ==
    LET blank(at) == Line("blank", at, "", NoTok, "")
        \* add_comment(sec, comment): a comment line per line of the wrapped
        \* text (the comments of the schema fit on one line).
        add_comment(at, text) ==
            IF text = "" THEN << >> ELSE <<Line("comment", at, "", NoTok, text)>>
        \* add_value(sec, k, v), with the inline comment put on the item
        \* when the value was written: an integer bare, a string quoted.
        add_value(at, k, v, inline) ==
            IF v = NoneV
            THEN Line("comment", at, "", NoTok, k \o " = # Uncomment to use")
            ELSE Line("pair", at, k,
                      IF v[1] = "int" THEN <<"bare", v[2]>> ELSE <<"quoted", v[2]>>,
                      inline)
        table(it) ==
            <<Line("header", it.path, "", NoTok, "")>>
            \o (IF it.prop.comment # NoneV
                THEN add_comment(it.path, it.prop.comment[2]) \o <<blank(it.path)>>
                ELSE << >>)
        value(it, at) ==
            IF it.prop.comment = NoneV
            THEN <<add_value(at, it.prop.name, it.value, "")>>
            ELSE IF Len(Chars(it.prop.comment[2])) > InlineMax
            THEN <<blank(at)>> \o add_comment(at, it.prop.comment[2])
                 \o <<add_value(at, it.prop.name, it.value, "")>>
            ELSE <<add_value(at, it.prop.name, it.value, it.prop.comment[2])>>
        RECURSIVE loop(_)
        loop(n) ==
            IF n > Len(items) THEN << >>
            ELSE (IF items[n].nestable THEN table(items[n])
                  ELSE value(items[n], Front(items[n].path)))
                 \o loop(n + 1)
    IN (IF Truthy(doc) THEN add_comment(<< >>, doc[2]) \o <<blank(<< >>)>> ELSE << >>)
       \o loop(1)

\* TomlConfigSerializer.load
TomlLoad(lines) ==
    LET value(tok) == IF tok[1] = "bare" THEN IntV(tok[2]) ELSE StrV(tok[2])
        typed(t) == [d |-> t.d, v |-> [p \in DOMAIN t.v |-> value(t.v[p])]]
    IN [tree |-> typed(TokenTree(lines)), err |-> ""]

(***************************************************************************)
(* YamlConfigSerializer                                                    *)
(***************************************************************************)
\* What the YAML resolver makes of a plain scalar.
YamlResolve(text) ==
    IF text \in {"", "null", "~"} THEN NoneV
    ELSE IF text \in Digits THEN IntV(text)
    ELSE StrV(text)

\* _to_yaml(root, obj) for a Nestable obj: every property is inserted into
\* root; the one CommentedMap `data` made by the call is handed to every
\* child of obj and is the value inserted under every child key.
RECURSIVE to_yaml(_, _, _)
to_yaml(st, root, obj) ==
    LET c == nodes[obj].cls
        now(acc) == [st EXCEPT !.data = acc.store, !.heap = acc.heap]
        \* A scalar as ruamel writes it: a string is quoted when the plain
        \* text would not be read back as that string.
        scalar(v) ==
            CASE v = NoneV -> <<"plain", "">>
              [] v[1] = "int" -> <<"plain", v[2]>>
              [] OTHER -> IF YamlResolve(v[2]) = StrV(v[2]) THEN <<"plain", v[2]>>
                          ELSE <<"quoted", v[2]>>
        entry(prop, isMap, tok) ==
            [key |-> prop.name, map |-> isMap, open |-> isMap, val |-> tok,
             com |-> IF prop.comment = NoneV THEN "" ELSE prop.comment[2],
             sub |-> << >>]
        \* CommentedMap.insert(pos, key, value, comment)
        insert(map, pos, e) ==
            IF pos >= Len(map) THEN Append(map, e)
            ELSE SubSeq(map, 1, pos) \o <<e>> \o SubSeq(map, pos + 1, Len(map))
        \* root.insert(i, prop.name, _to_yaml(data, child))
        child(acc, i, prop, sub) ==
            [root |-> insert(acc.root, i, entry(prop, TRUE, NoTok)),
             data |-> sub.map, store |-> sub.data, heap |-> sub.heap, err |-> sub.err]
        \* root.insert(i, prop.name, value): r is what getattr gave
        leaf(acc, i, prop, r) ==
            [root |-> insert(acc.root, i, entry(prop, FALSE, scalar(r.val))),
             data |-> acc.data, store |-> r.data, heap |-> r.heap, err |-> r.err]
        step(acc, i, prop) ==
            IF prop.kind = "nestable"
            THEN child(acc, i, prop, to_yaml(now(acc), acc.data, Obj(obj[1], prop.nested_cls)))
            ELSE leaf(acc, i, prop, ConfigProperty_get(now(acc), obj, prop.name))
        \* `for i, prop in enumerate(...)`
        RECURSIVE loop(_, _)
        loop(i, acc) ==
            IF i >= Len(Props(c)) \/ acc.err # "" THEN acc
            ELSE loop(i + 1, step(acc, i, Attr(c, Props(c)[i + 1])))
        \* `return root`: the entries of the children hold `data` as it is
        \* at the end of the loop.
        return(done) ==
            [map |-> [n \in 1..Len(done.root) |->
                        IF done.root[n].open
                        THEN [done.root[n] EXCEPT !.open = FALSE, !.sub = done.data]
                        ELSE done.root[n]],
             data |-> done.store, heap |-> done.heap, err |-> done.err]
    IN return(loop(0, [root |-> root, data |-> << >>, store |-> st.data,
                       heap |-> st.heap, err |-> ""]))

\* YamlConfigSerializer.dump: yml.dump(ya_data, f), a nested mapping
\* written below its key, after the comment set before the first key.
YamlDump(doc, st, o) ==
    LET RECURSIVE lines(_, _)
        lines(map, at) ==
            IF map = << >> THEN << >>
            ELSE (IF Head(map).map
                  THEN <<Line("header", Append(at, Head(map).key), "", NoTok, Head(map).com)>>
                       \o lines(Head(map).sub, Append(at, Head(map).key))
                  ELSE <<Line("pair", at, Head(map).key, Head(map).val, Head(map).com)>>)
                 \o lines(Tail(map), at)
        write(built) ==
            [lines |-> (IF Truthy(doc) THEN <<Line("comment", << >>, "", NoTok, doc[2])>>
                        ELSE << >>) \o lines(built.map, << >>),
             data |-> built.data, heap |-> built.heap, err |-> built.err]
    IN write(to_yaml(st, << >>, o))

\* YamlConfigSerializer.load
YamlLoad(lines) ==
    LET value(tok) == IF tok[1] = "plain" THEN YamlResolve(tok[2]) ELSE StrV(tok[2])
        typed(t) == [d |-> t.d, v |-> [p \in DOMAIN t.v |-> value(t.v[p])]]
    IN [tree |-> typed(TokenTree(lines)), err |-> ""]

(***************************************************************************)
(* JsonConfigSerializer                                                    *)
(***************************************************************************)
\* _to_dict(configs): obj.items() goes through Config.__getitem__ for every
\* key of _props, and the value it gets, a raw scalar or a raw dict, is
\* written as it is.
to_dict(st, o) ==
    LET c == nodes[o].cls
        \* data[k] = _to_dict(v): r is what Config.__getitem__ returned
        item(acc, k, r) ==
            [tree |-> IF r.err # "" THEN acc.tree
                      ELSE IF IsRef(r.val)
                      THEN TGraft(acc.tree, k, View(r.heap[r.val[2]], r.heap))
                      ELSE TLeaf(acc.tree, k, r.val),
             data |-> r.data, heap |-> r.heap, err |-> r.err]
        \* `for k, v in obj.items()`
        RECURSIVE loop(_, _)
        loop(n, acc) ==
            IF n > Len(Props(c)) \/ acc.err # "" THEN acc
            ELSE loop(n + 1, item(acc, Props(c)[n],
                                  Config_getitem(c, acc.data, acc.heap, Props(c)[n])))
    IN loop(1, [tree |-> EmptyTree, data |-> st.data, heap |-> st.heap, err |-> ""])

\* JsonConfigSerializer.dump: json.dump(_to_dict(configs), f, indent=4)
JsonDump(st, o) ==
    LET token(v) ==
            CASE v = NoneV -> <<"bare", "null">>
              [] v[1] = "int" -> <<"bare", v[2]>>
              [] OTHER -> <<"quoted", v[2]>>
        pair(tree, p) == Line("pair", Front(p), p[Len(p)], token(tree.v[p]), "")
        lines(tree, ds, vs) ==
            [n \in 1..Len(ds) |-> Line("header", ds[n], "", NoTok, "")]
            \o [n \in 1..Len(vs) |-> pair(tree, vs[n])]
        write(built) ==
            [lines |-> lines(built.tree, SetToSeq(built.tree.d),
                             SetToSeq(DOMAIN built.tree.v)),
             data |-> built.data, heap |-> built.heap, err |-> built.err]
    IN write(to_dict(st, o))

\* JsonConfigSerializer.load
JsonLoad(lines) ==
    LET value(tok) ==
            IF tok[1] = "quoted" THEN StrV(tok[2])
            ELSE IF tok[2] = "null" THEN NoneV
            ELSE IntV(tok[2])
        typed(t) == [d |-> t.d, v |-> [p \in DOMAIN t.v |-> value(t.v[p])]]
    IN [tree |-> typed(TokenTree(lines)), err |-> ""]

(***************************************************************************)
(* ConfigFormat.serializer and Config.save                                 *)
(***************************************************************************)
Formats == {"TOML", "YML", "JSON", "INI"}

\* serializer.dump(configs, path): the lines written, and the raw store
\* and heap the reads it makes leave.
dump(format, st, o) ==
    LET written(lines, paths) ==
            [lines |-> lines, data |-> paths.data, heap |-> paths.heap, err |-> paths.err]
        ini(paths) == written(IniDump(Doc(nodes[o].cls), paths.items), paths)
        toml(paths) == written(TomlDump(Doc(nodes[o].cls), paths.items), paths)
    IN CASE format = "YML" -> YamlDump(Doc(nodes[o].cls), st, o)
         [] format = "JSON" -> JsonDump(st, o)
         [] format = "INI" -> ini(get_prop_paths(st, o, << >>))
         [] format = "TOML" -> toml(get_prop_paths(st, o, << >>))

\* serializer.load(path)
load(format, lines) ==
    CASE format = "YML" -> YamlLoad(lines)
      [] format = "JSON" -> JsonLoad(lines)
      [] format = "INI" -> IniLoad(lines)
      [] format = "TOML" -> TomlLoad(lines)

(***************************************************************************)
(* Inputs                                                                  *)
(***************************************************************************)
\* The declared leaf properties, as <<class, name>>.
Leaves ==
    UNION {{<<c, k>> : k \in {x \in DOMAIN classes[c].dict : Attr(c, x).kind = "prop"}} :
             c \in Classes}

LeafNames == {l[2] : l \in Leaves}

\* The declared default of the leaf l = <<class, name>>.
DefaultOf(l) == Attr(l[1], l[2]).default

\* The values a caller assigns to a property: its default and another one.
ValuesOf(name) ==
    CASE name = "port" -> {IntV("10"), IntV("22")}
      [] name = "tag" -> {StrV("hello")}
      [] name = "addr" -> {StrV("nested"), StrV("hello")}
      [] name = "ver" -> {IntV("10"), IntV("22")}

\* Every partial mapping that follows the shape of the schema below class
\* c, with the leaf values vals(name) allows.
RECURSIVE MappingsOf(_, _)
MappingsOf(c, vals) ==
    LET RECURSIVE build(_)
        build(n) ==
            IF n > Len(Props(c)) THEN {EmptyTree}
            ELSE LET k == Props(c)[n]
                 IN build(n + 1) \cup
                    (IF Attr(c, k).kind = "nestable"
                     THEN {TGraft(t, k, sub) : t \in build(n + 1),
                                               sub \in MappingsOf(Attr(c, k).nested_cls, vals)}
                     ELSE {TLeaf(t, k, v) : t \in build(n + 1), v \in vals[k]})
    IN build(1)

\* The contents of the files read_file is given.
Files ==
    MappingsOf(Conf, [k \in LeafNames |->
                        CASE k = "port" -> {IntV("10"), IntV("22")}
                          [] k = "tag" -> {}
                          [] k = "addr" -> {StrV("hello")}
                          [] k = "ver" -> {IntV("22")}]) \ {EmptyTree}

\* The mapping literals read_dict is given.
Dicts ==
    MappingsOf(Conf, [k \in LeafNames |->
                        CASE k = "port" -> {IntV("22")}
                          [] k = "tag" -> {}
                          [] k = "addr" -> {StrV("hello")}
                          [] k = "ver" -> {IntV("22")}]) \ {EmptyTree}

EnvValues == {StrV("10"), StrV("22")}

\* The values app.cli.globals is given: unparsed, the default, another one.
GlobalsValues ==
    {EmptyDict, [k \in {"port"} |-> IntV("10")], [k \in {"port"} |-> IntV("22")]}

(***************************************************************************)
(* Init and the actions                                                    *)
(***************************************************************************)
\* The record of a call: what was called on which object with which
\* arguments, what it returned or raised, and, for read_file, whether the
\* call before it was the same call.
Call(op, o, name, val, tree, res) ==
    [op |-> op, o |-> o, name |-> name, val |-> val, tree |-> tree,
     ret |-> res.val, err |-> res.err,
     again |-> op = "read_file" /\ last.op = op /\ last.o = o /\ last.tree = tree]

NoResult == Result(NoneV, "", EmptyDict, EmptyDict)

\* The state of the tree of root i, for the descriptor operations.
TreeState(d, h, env, glob, ap) ==
    [data |-> d, heap |-> h, environ |-> env, globals |-> glob, app |-> ap]

Cur(i) == TreeState(data[i], heap, environ, globals, app[i])

\* What a read of each leaf property of each tree returns (or raises) when
\* the raw stores are dt, the heap h, and so on.
ReadsOf(dt, h, env, glob, ap) ==
    LET outcome(r) == IF r.err # "" THEN <<"raise", r.err>> ELSE r.val
    IN [i \in Inst |->
          [l \in Leaves |->
              outcome(ConfigProperty_get(TreeState(dt[i], h, env, glob, ap[i]),
                                         At(i, l[1]), l[2]))]]

\* The state after the construction of the instances, each made with
\* The classes ConfigMeta creates for the schema.
Schema == [c \in Classes |-> ConfigMeta_new(c)]

\* The classes ConfigMeta creates when the body of class c declares its
\* property `name` as prop, a property with the same default.
Declared(c, name, prop) ==
    [Schema EXCEPT ![c].dict[name] = set_name(prop, c, name)]

\* The names of the services (Service.name).
Services == {"dummy", "other", "worker"}

\* A Precept application nobody has constructed yet.
Idle ==
    [pc |-> "none", services |-> << >>, command |-> "", n |-> 0,
     running |-> [s \in Services |-> FALSE], tasks |-> << >>, trace |-> << >>]

\* No ImmutableDict constructed yet.
Unmade == [initialized |-> FALSE, given |-> EmptyDict, data |-> EmptyDict,
           op |-> "", name |-> "", arg |-> NoneV, out |-> NoneV]

\* The events dispatched and the functions subscribed to them; on_stop
\* sets stop on the event it is given.
BusEvents == {"send", "other"}

Funcs == {"on_send", "on_stop"}

\* EventDispatcher(): no subscriber, no dispatch in progress.
Quiet ==
    [subscribers |-> [e \in BusEvents |-> << >>], pc |-> "idle", event |-> "",
     stop |-> FALSE, num |-> 0, pos |-> 0, calls |-> << >>]

\* The coroutines that call the executor.
Callers == 1..3

\* AsyncExecutor(): the lock free, nobody waiting, no call made.
Unlocked ==
    [locked |-> FALSE, waiters |-> << >>,
     calls |-> [c \in Callers |-> [pc |-> "none", lock |-> FALSE, raises |-> FALSE]]]

\* roots[i](config_format=formats[i]): the classes as they were created
\* (declared), the objects of each tree, empty raw stores, no host.
InitWith(declared, roots, formats) ==
    LET RECURSIVE all(_)
        all(S) == IF S = {} THEN << >>
                  ELSE LET i == CHOOSE x \in S : TRUE
                       IN NestableInit(i, roots[i], NoObj) @@ all(S \ {i})
    IN /\ classes = declared
       /\ nodes = all(Inst)
       /\ data = [i \in Inst |-> EmptyDict]
       /\ app = [i \in Inst |-> FALSE]
       /\ heap = EmptyDict
       /\ held = EmptyDict
       /\ environ = EmptyDict
       /\ globals = EmptyDict
       /\ file = [format |-> "", lines |-> << >>, resolved |-> << >>]
       /\ config_format = formats
       /\ last = [op |-> "init", o |-> NoObj, name |-> "", val |-> NoneV,
                  tree |-> EmptyTree, ret |-> NoneV, err |-> "", again |-> FALSE]
       /\ reads = ReadsOf([i \in Inst |-> EmptyDict], EmptyDict, EmptyDict, EmptyDict,
                          [i \in Inst |-> FALSE])
       /\ run = Idle
       /\ imm = Unmade
       /\ bus = Quiet
       /\ pool = Unlocked

\* Config.__init__: config_format=ConfigFormat.TOML
Init == InitWith(Schema, [i \in Inst |-> Conf], [i \in Inst |-> "TOML"])

\* The dict objects kept become the state; ap tells which roots have a
\* host.
Keep(kept, ap) ==
    /\ data' = kept.data
    /\ held' = kept.held
    /\ heap' = kept.heap
    /\ reads' = ReadsOf(kept.data, kept.heap, environ, globals, ap)

\* The call op made on object o has returned or raised res; hd is the
\* mapping the caller holds afterwards.  The raw store of the root and the
\* heap are as the call left them, the objects nobody holds any more
\* dropped.
Done(op, o, name, val, tree, res, hd) ==
    /\ Keep(Collect(res.heap, [data EXCEPT ![o[1]] = res.data], hd), app)
    /\ last' = Call(op, o, name, val, tree, res)
    /\ UNCHANGED <<classes, nodes, app, environ, globals, config_format, run, imm, bus, pool>>

\* value = instance.name
Get(o, name) ==
    /\ Done("get", o, name, NoneV, EmptyTree,
            ConfigProperty_get(Cur(o[1]), o, name), held)
    /\ UNCHANGED file

\* instance.name = value
Set(o, name, value) ==
    /\ Done("set", o, name, value, EmptyTree,
            ConfigProperty_set(Cur(o[1]), o, name, value), held)
    /\ UNCHANGED file

\* cfg.read_dict({...}) with a mapping literal the caller does not keep.
ReadDict(i, t) ==
    LET literal(lit) == Result(NoneV, "", read_dict(data[i], lit.dict), lit.heap)
    IN /\ Done("read_dict", At(i, Conf), "", NoneV, t,
               literal(Alloc(t, heap, FALSE)), held)
       /\ UNCHANGED file

\* d = {...}; cfg.read_dict(d) with a mapping the caller keeps.
HoldDict(i, t) ==
    LET literal(lit) ==
            Done("read_dict", Obj(i, Conf), "", NoneV, t,
                 Result(NoneV, "", read_dict(data[i], lit.dict), lit.heap), lit.dict)
    IN /\ literal(Alloc(t, heap, FALSE))
       /\ UNCHANGED file

\* cfg.read_dict(d) with the mapping the caller kept.
ReadHeld(i) ==
    /\ held # EmptyDict
    /\ Done("read_dict", Obj(i, Conf), "", NoneV, View(held, heap),
            Result(NoneV, "", read_dict(data[i], held), heap), held)
    /\ UNCHANGED file

\* cfg.read_file(path), path naming a file whose content loads as t.
ReadFile(i, t) ==
    /\ Done("read_file", At(i, Conf), "", NoneV, t,
            read_file(nodes[At(i, Conf)].cls, data[i], heap, [tree |-> t, err |-> ""]),
            held)
    /\ UNCHANGED file

\* Precept.__init__: setattr(self.config, '_app', self)
Attach(i) ==
    /\ ~app[i]
    /\ app' = [app EXCEPT ![i] = TRUE]
    /\ reads' = ReadsOf(data, heap, environ, globals, [app EXCEPT ![i] = TRUE])
    /\ last' = Call("attach", Obj(i, Conf), "", NoneV, EmptyTree, NoResult)
    /\ UNCHANGED <<classes, nodes, data, heap, held, environ, globals, file, config_format, run, imm, bus, pool>>

\* os.environ[name] = value
SetEnv(name, value) ==
    /\ environ' = Put(environ, name, value)
    /\ reads' = ReadsOf(data, heap, Put(environ, name, value), globals, app)
    /\ last' = Call("setenv", NoObj, name, value, EmptyTree, NoResult)
    /\ UNCHANGED <<classes, nodes, data, app, heap, held, globals, file, config_format, run, imm, bus, pool>>

\* del os.environ[name]
DelEnv(name) ==
    /\ name \in DOMAIN environ
    /\ environ' = [k \in DOMAIN environ \ {name} |-> environ[k]]
    /\ reads' = ReadsOf(data, heap, [k \in DOMAIN environ \ {name} |-> environ[k]],
                        globals, app)
    /\ last' = Call("delenv", NoObj, name, NoneV, EmptyTree, NoResult)
    /\ UNCHANGED <<classes, nodes, data, app, heap, held, globals, file, config_format, run, imm, bus, pool>>

\* app.cli.globals = g: what Cli.run stores after parsing the command line.
SetGlobals(g) ==
    /\ \E i \in Inst : app[i]
    /\ globals' = g
    /\ reads' = ReadsOf(data, heap, environ, g, app)
    /\ last' = Call("globals", NoObj, "", NoneV, EmptyTree, NoResult)
    /\ UNCHANGED <<classes, nodes, data, app, heap, held, environ, file, config_format, run, imm, bus, pool>>

\* A new object that starts with the raw store of the object it replaces.
New_keepstore(i, f) ==
    /\ app' = [app EXCEPT ![i] = FALSE]
    /\ config_format' = [config_format EXCEPT ![i] = f]
    /\ Keep(Collect(heap, data, held), [app EXCEPT ![i] = FALSE])
    /\ last' = Call("new", Obj(i, Conf), "", NoneV, EmptyTree, NoResult)
    /\ UNCHANGED <<classes, nodes, environ, globals, file, run, imm, bus, pool>>

\* Config(config_format=f): a new object takes the place of root i.
New(i, f) ==
    /\ app' = [app EXCEPT ![i] = FALSE]
    /\ config_format' = [config_format EXCEPT ![i] = f]
    /\ Keep(Collect(heap, [data EXCEPT ![i] = EmptyDict], held),
            [app EXCEPT ![i] = FALSE])
    /\ last' = Call("new", Obj(i, Conf), "", NoneV, EmptyTree, NoResult)
    /\ UNCHANGED <<classes, nodes, environ, globals, file, run, imm, bus, pool>>

\* cfg.save(path).  The file remembers what every property of the saved
\* tree read when it was written.
Save(i) ==
    LET saved(out) ==
            /\ Done("save", Obj(i, Conf), "", NoneV, EmptyTree,
                    Result(NoneV, out.err, out.data, out.heap), held)
            /\ file' = IF out.err # "" THEN file
                       ELSE [format |-> config_format[i], lines |-> out.lines,
                             resolved |-> reads[i]]
    IN saved(dump(config_format[i], Cur(i), Obj(i, Conf)))

\* cfg.read_file(path), path naming the file the last save wrote, cfg
\* having the format the file was written in.
ReadSaved(i) ==
    /\ file.format = config_format[i]
    /\ Done("read_saved", Obj(i, Conf), "", NoneV, EmptyTree,
            read_file(Conf, data[i], heap, load(file.format, file.lines)), held)
    /\ UNCHANGED file

(***************************************************************************)
(* Specifications                                                          *)
(***************************************************************************)
\* One tree: reads, assignments, read_dict and read_file.
Next ==
    \/ \E l \in Leaves : Get(Obj("cfg1", l[1]), l[2])
    \/ \E l \in Leaves : \E v \in ValuesOf(l[2]) : Set(Obj("cfg1", l[1]), l[2], v)
    \/ \E t \in Dicts : ReadDict("cfg1", t)
    \/ \E t \in Files : ReadFile("cfg1", t)

Spec == Init /\ [][Next]_vars

\* The mappings of a set that give root-level properties only.
Flat(S) == {t \in S : t.d = {}}

\* One tree with a host attached: the sources of a root-level property
\* bound to an environment variable and to a command-line global.
NextOrder ==
    \/ Attach("cfg1")
    \/ \E v \in EnvValues : SetEnv(Attr(Conf, "port").environ_name, v)
    \/ DelEnv(Attr(Conf, "port").environ_name)
    \/ \E g \in GlobalsValues : SetGlobals(g)
    \/ \E v \in ValuesOf("port") : Set(Obj("cfg1", Conf), "port", v)
    \/ Get(Obj("cfg1", Conf), "port")
    \/ \E t \in Flat(Dicts) : ReadDict("cfg1", t)
    \/ \E t \in Flat(Files) : ReadFile("cfg1", t)

SpecOrder == Init /\ [][NextOrder]_vars

\* The mappings two instances are both given.
SharedDicts == {t \in Dicts : DOMAIN t.v = {<<"net", "addr">>}}

\* Two instances of the class, read_dict of a mapping the caller keeps.
NextMulti ==
    \/ \E i \in Inst : \E t \in SharedDicts : HoldDict(i, t)
    \/ \E i \in Inst : ReadHeld(i)
    \/ \E i \in Inst : \E l \in Leaves \ {<<Conf, "tag">>} :
          \E v \in ValuesOf(l[2]) \ {DefaultOf(l)} : Set(Obj(i, l[1]), l[2], v)
    \/ \E i \in Inst : \E t \in Flat(Files) \cap Dicts : ReadFile(i, t)

SpecMulti == Init /\ [][NextMulti]_vars

\* One tree that is written and saved in each format, and a second
\* instance, made anew, that reads the saved file.
NextRoundTrip ==
    \/ \E l \in Leaves : \E v \in ValuesOf(l[2]) \ {DefaultOf(l)} :
          Set(Obj("cfg1", l[1]), l[2], v)
    \/ Save("cfg1")
    \/ New("cfg2", config_format["cfg1"])
    \/ ReadSaved("cfg2")

\* Both instances are made with one of the four formats.
InitRoundTrip ==
    \E f \in Formats : InitWith(Schema, [i \in Inst |-> Conf], [i \in Inst |-> f])

SpecRoundTrip == InitRoundTrip /\ [][NextRoundTrip]_vars

(***************************************************************************)
(* Definitions the properties share                                        *)
(***************************************************************************)
\* The keys from the root class down to class c, read off the class bodies.
RECURSIVE MountKeys(_)
MountKeys(c) ==
    IF \A o \in Classes : \A n \in 1..Len(Body(o)) : Body(o)[n].cls # c
    THEN << >>
    ELSE LET o == CHOOSE x \in Classes : \E n \in 1..Len(Body(x)) : Body(x)[n].cls = c
             n == CHOOSE m \in 1..Len(Body(o)) : Body(o)[m].cls = c
         IN Append(MountKeys(o), EntryKey(Body(o)[n]))

\* The root-to-leaf path of the leaf l = <<class, name>>.
PathOf(l) == Append(MountKeys(l[1]), l[2])

\* The value stored in the raw store d at a path, undefined when a level of
\* the path is absent.
RECURSIVE StoredIn(_, _)
StoredIn(d, path) ==
    LET v == DGet(d, Head(path))
    IN IF Len(path) = 1 \/ v = undefined THEN v
       ELSE IF IsRef(v) THEN StoredIn(heap[v[2]], Tail(path))
       ELSE undefined

Stored(i, l) == StoredIn(data[i], PathOf(l))

\* What a read returns for a raw value v of the leaf l.
Converted(l, v) ==
    IF v # NoneV /\ Attr(l[1], l[2]).config_type # "none"
    THEN Convert(Attr(l[1], l[2]).config_type, v).val
    ELSE v

\* No environment variable and no command-line global overrides the leaf l
\* on root i.
NoOverride(i, l) ==
    /\ Attr(l[1], l[2]).environ_name \notin DOMAIN environ
    /\ ~(app[i] /\ Attr(l[1], l[2]).qualified_name \in DOMAIN globals)

\* The leaf the last call was made on.
LastLeaf == <<nodes[last.o].cls, last.name>>

(***************************************************************************)
(* C1: on a root with a host attached, a property with default D, an       *)
(* environment name E and auto_global reads, at every moment and whatever  *)
(* has been written: the global G when G is present and G # D; otherwise   *)
(* the value of the environment variable E when it is set; otherwise the   *)
(* value stored in the raw store when there is one; otherwise D (each      *)
(* converted to the property's config_type).                               *)
(***************************************************************************)
C1_Precedence ==
    \A i \in Inst : \A l \in Leaves :
        LET p == Attr(l[1], l[2])
            G == DGet(globals, p.qualified_name)
            E == DGet(environ, p.environ_name)
            S == Stored(i, l)
        IN (app[i] /\ IsConfig(l[1]) /\ p.auto_global /\ p.environ_name # "") =>
              reads[i][l] =
                 Converted(l, IF G # undefined /\ G # p.default THEN G
                              ELSE IF E # undefined THEN E
                              ELSE IF S # undefined THEN S
                              ELSE p.default)

\* A write has just stored 10 while the global 22 and the environment
\* variable are present: the read returns the global.
C1_Witness ==
    /\ last.op = "set" /\ last.name = "port" /\ last.val = IntV("10")
    /\ app["cfg1"]
    /\ DGet(globals, "port") = IntV("22")
    /\ DGet(environ, "PORT") = StrV("10")
    /\ reads["cfg1"][<<Conf, "port">>] = IntV("22")

(***************************************************************************)
(* C2: a leaf X that holds an explicitly stored value V # default(X) still *)
(* reads V after read_file of any file; a leaf Y whose stored value is      *)
(* absent or equal to its default reads the file's value for Y when the    *)
(* file defines Y.  (No override is present.)  Stated as claimed.          *)
(***************************************************************************)
C2_LoadKeepsCustomized ==
    [][\A i \in Inst, t \in Files :
         (last'.op = "read_file" /\ last'.o = Obj(i, Conf) /\ last'.tree = t) =>
            \A l \in Leaves :
               NoOverride(i, l) =>
                  LET V == Stored(i, l)
                  IN IF V # undefined /\ V # DefaultOf(l)
                     THEN reads'[i][l] = Converted(l, V)
                     ELSE PathOf(l) \in DOMAIN t.v =>
                             reads'[i][l] = Converted(l, t.v[PathOf(l)])
    ]_vars

(***************************************************************************)
(* C3: read_file called twice in a row with the same file, no write in     *)
(* between: every property resolves after the second load to the value it  *)
(* resolved to after the first.                                            *)
(***************************************************************************)
C3_LoadTwiceIdempotent ==
    [][last'.again => (reads' = reads /\ last'.err = last.err)]_vars

\* The second of two loads of a file, into a tree that held a customized
\* nested value and a default one before the first.
C3_Witness ==
    /\ last.op = "read_file" /\ last.again /\ last.err = ""
    /\ <<"net", "addr">> \in DOMAIN last.tree.v
    /\ <<"port">> \in DOMAIN last.tree.v
    /\ Stored("cfg1", <<Conf, "port">>) # last.tree.v[<<"port">>]
    /\ Stored("cfg1", <<Net, "addr">>) = last.tree.v[<<"net", "addr">>]

(***************************************************************************)
(* C4: in each of the four formats, save followed by read_file of the      *)
(* saved file into a fresh instance of the class gives every leaf the      *)
(* value it read in the tree that was saved.  Stated as claimed.           *)
(***************************************************************************)
C4_RoundTrip ==
    [][\A j \in Inst :
         (last'.op = "read_saved" /\ last'.o = Obj(j, Conf)
            /\ data[j] = EmptyDict /\ ~app[j]) =>
            reads'[j] = file.resolved
    ]_vars

(***************************************************************************)
(* C5: read_dict(d) overwrites exactly the top-level keys of d: afterwards *)
(* every top-level key of d reads d[k], even when it had been set before   *)
(* (under a nested key: the properties d[k] defines read the value d[k]    *)
(* gives them, the others their default), and every property that is not   *)
(* under a top-level key of d reads what it read before the call.          *)
(***************************************************************************)
C5_ReadDictOverwritesTopKeys ==
    [][\A i \in Inst, d \in Dicts :
         (last'.op = "read_dict" /\ last'.o = Obj(i, Conf) /\ last'.tree = d) =>
            \A l \in Leaves :
               NoOverride(i, l) =>
                  IF PathOf(l)[1] \in TKeys(d, << >>)
                  THEN reads'[i][l] = IF PathOf(l) \in DOMAIN d.v
                                      THEN Converted(l, d.v[PathOf(l)])
                                      ELSE DefaultOf(l)
                  ELSE reads'[i][l] = reads[i][l]
    ]_vars

\* read_dict has replaced a whole nested mapping that had been customized,
\* while the port set before the call keeps its value.
C5_Witness ==
    /\ last.op = "read_dict"
    /\ TKeys(last.tree, << >>) = {"net"}
    /\ <<"net", "addr">> \notin DOMAIN last.tree.v
    /\ reads["cfg1"][<<Net, "addr">>] = StrV("nested")
    /\ reads["cfg1"][<<Conf, "port">>] = IntV("22")

(***************************************************************************)
(* C6: after an assignment of V to a property, root-level or nested, has   *)
(* completed, the next read of the property returns V (converted to the    *)
(* property's config_type), no override being present.                     *)
(***************************************************************************)
C6_SetThenRead ==
    (last.op = "set" /\ last.err = "" /\ NoOverride(last.o[1], LastLeaf))
    => reads[last.o[1]][LastLeaf] = Converted(LastLeaf, last.val)

\* A property three levels deep has been assigned a value that is not its
\* default.
C6_Witness ==
    /\ last.op = "set" /\ last.err = ""
    /\ last.o = Obj("cfg1", TlsOpt) /\ last.name = "ver" /\ last.val = IntV("22")

(***************************************************************************)
(* C7: a write to a nested property succeeds from every reachable state:   *)
(* levels of the path missing from the raw store are created, the write    *)
(* never fails because a level is absent.  Stated as claimed.              *)
(***************************************************************************)
C7_NestedWriteNeverFails ==
    last.op = "set" => last.err = ""

(***************************************************************************)
(* C8: for a property declared three levels deep, get_root called with the *)
(* property's name returns the true root and a key path that, joined with  *)
(* dots, equals the property's qualified_name.  Stated as claimed.         *)
(***************************************************************************)
C8_PathIsQualifiedName ==
    \A o \in DOMAIN nodes : \A l \in Leaves :
        (nodes[o].cls = l[1] /\ Len(MountKeys(l[1])) = 2) =>
            /\ get_root(o, l[2]).root = Obj(o[1], Conf)
            /\ DotJoin(get_root(o, l[2]).levels) = Attr(l[1], l[2]).qualified_name

(***************************************************************************)
(* C9: get_root on the root returns the root itself; on a node mounted     *)
(* under the keys k1..kd, get_root(name) returns the root and exactly      *)
(* k1, ..., kd, name.                                                      *)
(***************************************************************************)
C9_GetRootPath ==
    \A o \in DOMAIN nodes :
        IF nodes[o].parent = NoObj
        THEN get_root(o, "").root = o /\ get_root(o, "").levels = << >>
        ELSE \A name \in LeafNames :
                /\ get_root(o, name).root = Obj(o[1], Conf)
                /\ nodes[get_root(o, name).root].parent = NoObj
                /\ get_root(o, name).levels = Append(MountKeys(nodes[o].cls), name)

\* A property of the grandchild node has been written through get_root.
C9_Witness ==
    /\ last.op = "set" /\ last.err = ""
    /\ nodes[last.o].cls = TlsOpt
    /\ Len(get_root(last.o, last.name).levels) = 3

(***************************************************************************)
(* C10: two instances of the class are independent: a write to a property  *)
(* of one instance, root-level or nested, never changes the value read for *)
(* any property of the other, whatever set, read_dict and read_file calls  *)
(* came before (read_dict of one mapping on both included).  Stated as     *)
(* claimed.                                                                *)
(***************************************************************************)
C10_InstancesIndependent ==
    [][\A i \in Inst :
         (last'.op = "set" /\ last'.o[1] = i) =>
            \A j \in Inst \ {i} : reads'[j] = reads[j]
    ]_vars

(***************************************************************************)
(* C11: the raw store is empty after construction, and a read of a         *)
(* property (root-level or nested) and a save leave the raw store of every *)
(* tree exactly as it was.  Stated as claimed.                             *)
(***************************************************************************)
C11_ReadsLeaveRawStore ==
    /\ [](last.op = "init" => \A i \in Inst : data[i] = EmptyDict)
    /\ [][last'.op \in {"get", "save"} =>
             \A i \in Inst : View(data'[i], heap') = View(data[i], heap)]_vars

(***************************************************************************)
(* Files with keys no class declares                                       *)
(***************************************************************************)
\* The files a later version of the application wrote: a file with one
\* more entry, under a key that no class declares, at the top level, in the
\* child's mapping or in the grandchild's.
ForwardFiles ==
    LET WithExtra(t, q) ==
            [d |-> t.d \cup {SubSeq(q, 1, n) : n \in 1..Len(q)},
             v |-> [p \in DOMAIN t.v \cup {Append(q, "extra")} |->
                      IF p \in DOMAIN t.v THEN t.v[p] ELSE IntV("22")]]
    IN {WithExtra(t, MountKeys(c)) :
           t \in {x \in Files \cup {EmptyTree} :
                    Cardinality(DOMAIN x.v) + Cardinality(x.d) <= 2},
           c \in Classes}

\* One tree: assignments, and read_file of files with an undeclared key.
NextForward ==
    \/ \E l \in Leaves : \E v \in ValuesOf(l[2]) \ {DefaultOf(l)} :
          Set(Obj("cfg1", l[1]), l[2], v)
    \/ \E t \in ForwardFiles : ReadFile("cfg1", t)

SpecForward == Init /\ [][NextForward]_vars

(***************************************************************************)
(* C12: read_file of a file with a key no class declares, at the top level *)
(* or inside a nested mapping, completes without raising, and every        *)
(* property reads afterwards what it reads after read_file of the same     *)
(* file without the undeclared key.  Stated as claimed.                    *)
(***************************************************************************)
C12_UnknownKeysSkipped ==
    [][\A t \in ForwardFiles :
         (last'.op = "read_file" /\ last'.tree = t) =>
            LET DeclaredPart ==
                    [d |-> t.d,
                     v |-> [p \in {x \in DOMAIN t.v : x[Len(x)] # "extra"} |-> t.v[p]]]
                after(res) ==
                    ReadsOf([data EXCEPT !["cfg1"] = res.data], res.heap,
                            environ, globals, app)["cfg1"]
            IN /\ last'.err = ""
               /\ reads'["cfg1"] =
                     after(read_file(Conf, data["cfg1"], heap,
                                     [tree |-> DeclaredPart, err |-> ""]))
    ]_vars

(***************************************************************************)
(* Values that cannot be converted                                         *)
(***************************************************************************)
\* One tree with a host: the root-level property of type int is given, by
\* each of its sources, values that int() accepts, a text that is not a
\* number and (by read_dict) a mapping.
NextCoerce ==
    \/ Attach("cfg1")
    \/ \E v \in EnvValues \cup {StrV("hello")} :
          SetEnv(Attr(Conf, "port").environ_name, v)
    \/ DelEnv(Attr(Conf, "port").environ_name)
    \/ \E g \in GlobalsValues \cup {[k \in {"port"} |-> StrV("hello")]} : SetGlobals(g)
    \/ \E v \in ValuesOf("port") \cup {StrV("hello")} : Set(Obj("cfg1", Conf), "port", v)
    \/ ReadDict("cfg1", TGraft(EmptyTree, "port", EmptyTree))
    \/ Get(Obj("cfg1", Conf), "port")

SpecCoerce == Init /\ [][NextCoerce]_vars

(***************************************************************************)
(* C13: when the value resolved for a property (from the global, the       *)
(* environment, the raw store or the default) cannot be converted to the   *)
(* property's config_type, the read raises ConfigError, whichever way the  *)
(* conversion fails; no other kind of error escapes a read.  Stated as     *)
(* claimed.                                                                *)
(***************************************************************************)
C13_CoercionFailureIsConfigError ==
    \A i \in Inst : \A l \in {x \in Leaves : IsConfig(x[1])} :
        LET p == Attr(l[1], l[2])
            G == IF app[i] /\ p.auto_global THEN DGet(globals, p.qualified_name)
                 ELSE undefined
            E == DGet(environ, p.environ_name)
            S == Stored(i, l)
            raw == IF G # undefined /\ G # p.default THEN G
                   ELSE IF E # undefined THEN E
                   ELSE IF S # undefined THEN S
                   ELSE p.default
        IN /\ (raw # NoneV /\ p.config_type # "none"
                 /\ Convert(p.config_type, raw).err # "")
              => reads[i][l] = <<"raise", "ConfigError">>
           /\ reads[i][l][1] = "raise" => reads[i][l][2] = "ConfigError"

(***************************************************************************)
(* A property declared without config_type                                 *)
(***************************************************************************)
\* One tree: the root-level property is written, bound to the environment
\* and loaded from a file that gives its value as text.
NextInfer ==
    \/ \E v \in EnvValues : SetEnv(Attr(Conf, "port").environ_name, v)
    \/ DelEnv(Attr(Conf, "port").environ_name)
    \/ \E v \in ValuesOf("port") : Set(Obj("cfg1", Conf), "port", v)
    \/ Get(Obj("cfg1", Conf), "port")
    \/ \E v \in EnvValues : ReadFile("cfg1", TLeaf(EmptyTree, "port", v))

\* The root class declares port = ConfigProperty(default=d, comment='Port',
\* auto_environ=True, auto_global=True) with one of several defaults, zero
\* and the empty text among them.
SpecInfer ==
    /\ \E d \in {IntV("10"), IntV("0"), StrV("hello"), StrV(""), NoneV} :
           InitWith(Declared(Conf, "port",
                             ConfigProperty(d, StrV("Port"), "none", "", TRUE, TRUE)),
                    [i \in Inst |-> Conf], [i \in Inst |-> "INI"])
    /\ [][NextInfer]_vars

(***************************************************************************)
(* C14: a property declared without config_type and with a default that is *)
(* not None has the type of its default as config_type, and every value    *)
(* that is not None read for it, a text of the environment or of a file    *)
(* included, has the type of the default.  Stated as claimed.              *)
(***************************************************************************)
C14_TypeInferredFromDefault ==
    \A i \in Inst :
        LET p == Attr(Conf, "port")
            value == reads[i][<<Conf, "port">>]
        IN p.default # NoneV =>
              /\ p.config_type = p.default[1]
              /\ value # NoneV => value[1] = p.default[1]

(***************************************************************************)
(* A nested property declared with auto_environ                            *)
(***************************************************************************)
\* One tree: the properties are written and read while the environment
\* variable named after the nested property, uppercased, is set and unset.
NextNestedEnv ==
    \/ \E v \in EnvValues \cup {StrV("hello")} : SetEnv(upper("addr"), v)
    \/ DelEnv(upper("addr"))
    \/ \E l \in Leaves : \E v \in ValuesOf(l[2]) : Set(Obj("cfg1", l[1]), l[2], v)
    \/ \E l \in Leaves : Get(Obj("cfg1", l[1]), l[2])

\* The child class declares addr = ConfigProperty(default='nested',
\* comment='Addr', auto_environ=True).
SpecNestedEnv ==
    /\ InitWith(Declared(Net, "addr",
                         ConfigProperty(StrV("nested"), StrV("Addr"), "none", "",
                                        TRUE, FALSE)),
                [i \in Inst |-> Conf], [i \in Inst |-> "TOML"])
    /\ [][NextNestedEnv]_vars

(***************************************************************************)
(* C17: a property declared on a nested node with auto_environ and no      *)
(* explicit environ_name gets no environment name, and setting the         *)
(* environment variable named after it, uppercased, changes the value of   *)
(* no property.  Stated as claimed.                                        *)
(***************************************************************************)
C17_NestedNotBoundToEnviron ==
    /\ [](\A l \in Leaves :
            (~IsConfig(l[1]) /\ Attr(l[1], l[2]).auto_environ) =>
               Attr(l[1], l[2]).environ_name = "")
    /\ [][(last'.op = "setenv" /\ last'.name = upper("addr")) => reads' = reads]_vars

(***************************************************************************)
(* C16: in YAML, TOML and INI, the file a save wrote carries the comment   *)
(* of the root class and the comment of every property and of every child  *)
(* that declares one, whatever the values are (ConfigParser lowers the     *)
(* text of an INI comment); in INI the comment of a child is in the        *)
(* child's own section, before the first entry of the section.  Stated as  *)
(* claimed.                                                                *)
(***************************************************************************)
C16_EveryCommentWritten ==
    LET lines == file.lines
        declared ==
            {Doc(Conf)} \cup
            UNION {{Attr(c, k).comment : k \in DOMAIN classes[c].dict} : c \in Classes}
        carried(n, text) == lines[n].com \in {text, lower(text)}
    IN file.format \in {"YML", "TOML", "INI"} =>
          /\ \A com \in declared :
                Truthy(com) => \E n \in 1..Len(lines) : carried(n, com[2])
          /\ file.format = "INI" =>
                \A c \in Classes :
                   (~IsConfig(c) /\ Truthy(Doc(c))) =>
                      \E n \in 1..Len(lines) :
                         /\ lines[n].kind = "comment"
                         /\ lines[n].at = MountKeys(c)
                         /\ carried(n, Doc(c)[2])
                         /\ \A m \in 1..Len(lines) :
                               (lines[m].kind = "pair" /\ lines[m].at = MountKeys(c))
                               => n < m

(***************************************************************************)
(* A tree of the declared classes and a tree of the classes config_factory *)
(* makes                                                                   *)
(***************************************************************************)
\* The caller makes every call twice: on cfg1, an instance of the declared
\* root class, and then, before any other call, on cfg2, an instance of the
\* class config_factory returned.
NextFactory ==
    \/ /\ last.o[1] # "cfg1"
       /\ \/ \E l \in Leaves : \E v \in ValuesOf(l[2]) : Set(At("cfg1", l[1]), l[2], v)
          \/ \E t \in Dicts : ReadDict("cfg1", t)
          \/ \E t \in Files : ReadFile("cfg1", t)
    \/ /\ last.o[1] = "cfg1"
       /\ \/ last.op = "set" /\ Set(At("cfg2", nodes[last.o].cls), last.name, last.val)
          \/ last.op = "read_dict" /\ ReadDict("cfg2", last.tree)
          \/ last.op = "read_file" /\ ReadFile("cfg2", last.tree)

\* cls = config_factory(d), d the mapping of the declared keys to the
\* declared defaults; cfg1 = Conf(); cfg2 = cls().
SpecFactory ==
    /\ InitWith(Schema @@ config_factory(NestableDefault(Conf), "", ""),
                [i \in Inst |-> IF i = "cfg1" THEN Conf ELSE Wrapped],
                [i \in Inst |-> "TOML"])
    /\ [][NextFactory]_vars

(***************************************************************************)
(* C15: a fresh instance of the class config_factory made of a nested      *)
(* mapping reads, for every leaf at any depth, the mapping's value at the  *)
(* leaf's path; and after the same set, read_dict and read_file calls were *)
(* made on it and on an instance of the declared schema with the same keys *)
(* and defaults, every leaf reads the same on both (or raises the same).   *)
(***************************************************************************)
C15_FactoryLikeDeclared ==
    /\ last.op = "init" =>
          \A l \in Leaves : reads["cfg2"][l] = NestableDefault(Conf).v[PathOf(l)]
    /\ last.o[1] # "cfg1" => reads["cfg2"] = reads["cfg1"]

\* A property three levels deep of the factory-made tree has been assigned
\* after a file was read into both trees, and reads the value assigned.
C15_Witness ==
    /\ last.op = "set" /\ last.err = ""
    /\ last.o = Obj("cfg2", Wrapped \o ".net.tls_opt")
    /\ last.val = IntV("22")
    /\ "net" \in DOMAIN data["cfg2"]
    /\ reads["cfg2"][<<TlsOpt, "ver">>] = IntV("22")
    /\ reads["cfg1"][<<TlsOpt, "ver">>] = IntV("22")
    /\ reads["cfg2"][<<Net, "addr">>] = StrV("hello")

(***************************************************************************)
(* The host application: one run of Precept.start, the services and the     *)
(* events.  run.trace records, in order, every event dispatched            *)
(* (<<"event", name>>), every entry into and return from the body of a      *)
(* service method (<<"enter", m>>, <<"exit", m>>) and the command body      *)
(* (<<"command", name>>).                                                   *)
(***************************************************************************)
\* The commands of the application and the services each is declared with:
\* @Command(services=[...]).
CommandServices == [foo |-> << >>, bar |-> <<"worker">>, baz |-> <<"dummy">>]

\* itertools.chain(self.services, (command and command.services or []))
chain(r) ==
    r.services \o (IF r.command = "" THEN << >> ELSE CommandServices[r.command])

\* await self.events.dispatch(event)
dispatch(r, event) == [r EXCEPT !.trace = Append(@, <<"event", event>>)]

\* A wrapped method that announces itself before its body has run.
dispatch_wrap_early(r, s, method, part) ==
    LET event == s \o "_" \o method
    IN IF part = "enter"
       THEN dispatch([r EXCEPT !.running[s] = (method = "start"),
                               !.trace = Append(@, <<"enter", event>>)], event)
       ELSE [r EXCEPT !.trace = Append(@, <<"exit", event>>)]

\* The method of service s as ServiceMeta wrapped it.  Up to the first
\* suspension of the body (part "enter"): self.running = running and the
\* body is entered.  From its return (part "exit"): the body has returned
\* and the event {name}_{method} is dispatched.
dispatch_wrap(r, s, method, part) ==
    LET event == s \o "_" \o method
    IN IF part = "enter"
       THEN [r EXCEPT !.running[s] = (method = "start"),
                      !.trace = Append(@, <<"enter", event>>)]
       ELSE dispatch([r EXCEPT !.trace = Append(@, <<"exit", event>>)], event)

\* A start_services that does not look at the running flag.
start_services_all(r) ==
    [r EXCEPT !.tasks = [k \in 1..Len(chain(r)) |->
                            [service |-> chain(r)[k], method |-> "start",
                             at |-> "created"]]]

\* The tasks start_services creates: service.start() of every service
\* that is not running.
start_services(r) ==
    LET idle(s) == ~r.running[s]
        chosen == SelectSeq(chain(r), idle)
    IN [r EXCEPT !.tasks = [k \in 1..Len(chosen) |->
                               [service |-> chosen[k], method |-> "start",
                                at |-> "created"]]]

\* A stop_services that stops nothing.
stop_services_none(r) == [r EXCEPT !.tasks = << >>]

\* The tasks stop_services creates: service.stop() of every running
\* service.
stop_services(r) ==
    LET busy(s) == r.running[s]
        chosen == SelectSeq(chain(r), busy)
    IN [r EXCEPT !.tasks = [k \in 1..Len(chosen) |->
                               [service |-> chosen[k], method |-> "stop",
                                at |-> "created"]]]

\* Precept(services=[...]).
Precept_init(services) ==
    /\ run.pc = "none"
    /\ run' = [Idle EXCEPT !.pc = "ready", !.services = services]
    /\ UNCHANGED <<configs, imm, bus, pool>>

\* The event loop runs task k up to its next suspension.
Task(k) ==
    /\ k \in 1..Len(run.tasks)
    /\ run.tasks[k].at # "done"
    /\ LET t == run.tasks[k]
           part == IF t.at = "created" THEN "enter" ELSE "exit"
           next == IF t.at = "created" THEN "entered" ELSE "done"
       IN run' = [dispatch_wrap(run, t.service, t.method, part)
                     EXCEPT !.tasks[k].at = next]
    /\ UNCHANGED <<configs, imm, bus, pool>>

\* Precept._on_parse: CLI_PARSED, then setup_services (each setup awaited
\* in turn), then start_services.
on_parse ==
    /\ \/ /\ run.pc = "on_parse"
          /\ run' = [dispatch(run, "CLI_PARSED") EXCEPT !.pc = "setup", !.n = 1]
       \/ /\ run.pc = "setup"
          /\ run.n <= Len(chain(run))
          /\ LET s == chain(run)[run.n]
             IN run' = [dispatch_wrap(dispatch_wrap(run, s, "setup", "enter"),
                                      s, "setup", "exit")
                           EXCEPT !.n = @ + 1]
       \/ /\ run.pc = "setup"
          /\ run.n > Len(chain(run))
          /\ run' = [start_services(run) EXCEPT !.pc = "starting"]
       \/ /\ run.pc = "starting"
          /\ \A k \in 1..Len(run.tasks) : run.tasks[k].at = "done"
          /\ run' = [run EXCEPT !.pc = "parsed", !.tasks = << >>]
    /\ UNCHANGED <<configs, imm, bus, pool>>

\* Cli.run: parse the command line, await on_parse, dispatch CLI_STARTED,
\* await the command, which returns or is interrupted.
Cli_run ==
    /\ \/ /\ run.pc = "parse"
          /\ \E c \in DOMAIN CommandServices :
                run' = [run EXCEPT !.pc = "on_parse", !.command = c]
       \/ /\ run.pc = "parsed"
          /\ run' = [dispatch(run, "CLI_STARTED") EXCEPT !.pc = "command"]
       \/ /\ run.pc = "command"
          /\ \E end \in {"ran", "interrupted"} :
                run' = [run EXCEPT !.pc = end,
                                   !.trace = Append(@, <<"command", run.command>>)]
    /\ UNCHANGED <<configs, imm, bus, pool>>

\* Precept.start: BEFORE_CLI_START, cli.run, stop_services, CLI_STOPPED;
\* a KeyboardInterrupt of cli.run is announced and raised again.
Precept_start ==
    /\ \/ /\ run.pc = "ready"
          /\ run' = [dispatch(run, "BEFORE_CLI_START") EXCEPT !.pc = "parse"]
       \/ /\ run.pc = "interrupted"
          /\ run' = [dispatch(run, "KeyboardInterrupt") EXCEPT !.pc = "raised"]
       \/ /\ run.pc = "ran"
          /\ run' = [stop_services(run) EXCEPT !.pc = "stopping"]
       \/ /\ run.pc = "stopping"
          /\ \A k \in 1..Len(run.tasks) : run.tasks[k].at = "done"
          /\ run' = [dispatch(run, "CLI_STOPPED")
                        EXCEPT !.pc = "returned", !.tasks = << >>]
    /\ UNCHANGED <<configs, imm, bus, pool>>

\* One run of start of an application with one or two services of its own.
NextRun ==
    \/ \E services \in {<<"dummy">>, <<"dummy", "other">>} : Precept_init(services)
    \/ Precept_start
    \/ Cli_run
    \/ on_parse
    \/ \E k \in 1..Len(run.tasks) : Task(k)

SpecRun == Init /\ [][NextRun]_vars

\* The places of the entry e in the trace.
Places(e) == {n \in 1..Len(run.trace) : run.trace[n] = e}

\* What the trace tells of the service s.  once: s is listed once among
\* the services of the application and of the command.  order: each of
\* its events was dispatched at most once, {name}_setup before
\* {name}_start before {name}_stop, {name}_start after the body of start
\* returned, the command body after {name}_start and before stop is
\* entered.  each: each of its three events was dispatched once.
Events(s) ==
    LET ev(method) == <<"event", s \o "_" \o method>>
        body == <<"command", run.command>>
        Precedes(e1, e2) == \A n \in Places(e2) : \E m \in Places(e1) : m < n
    IN [once |-> Cardinality({k \in 1..Len(chain(run)) : chain(run)[k] = s}) = 1,
        order |-> /\ \A method \in {"setup", "start", "stop"} :
                        Cardinality(Places(ev(method))) <= 1
                  /\ Precedes(ev("setup"), ev("start"))
                  /\ Precedes(ev("start"), ev("stop"))
                  /\ Precedes(<<"exit", s \o "_start">>, ev("start"))
                  /\ Precedes(ev("start"), body)
                  /\ Precedes(body, ev("stop"))
                  /\ Precedes(body, <<"enter", s \o "_stop">>),
        each |-> \A method \in {"setup", "start", "stop"} :
                    Cardinality(Places(ev(method))) = 1]

Lifecycle == <<"BEFORE_CLI_START", "CLI_PARSED", "CLI_STARTED", "CLI_STOPPED">>

class_attrs == {"get", "items", "keys", "values"}

\* ImmutableDict(**kwargs)
ImmutableDict_init(kwargs) ==
    /\ ~imm.initialized
    /\ imm' = [initialized |-> TRUE, given |-> kwargs, data |-> kwargs,
               op |-> "init", name |-> "", arg |-> NoneV, out |-> NoneV]
    /\ UNCHANGED <<configs, run, bus, pool>>

\* An assignment that stores the value under the key.
ImmutableDict_setattr_stores(key, value) ==
    /\ imm.initialized
    /\ imm' = [imm EXCEPT !.op = "setattr", !.name = key, !.out = NoneV,
                          !.data = Put(imm.data, key, value)]
    /\ UNCHANGED <<configs, run, bus, pool>>

\* d.key = value: ImmutableDict.__setattr__ of a constructed object.
ImmutableDict_setattr(key, value) ==
    /\ imm.initialized
    /\ imm' = [imm EXCEPT !.op = "setattr", !.name = key,
                          !.out = <<"raise", "ImmutableError">>]
    /\ UNCHANGED <<configs, run, bus, pool>>

\* d[key] = value: a Mapping has no __setitem__.
ImmutableDict_setitem(key, value) ==
    /\ imm.initialized
    /\ imm' = [imm EXCEPT !.op = "setitem", !.name = key,
                          !.out = <<"raise", "TypeError">>]
    /\ UNCHANGED <<configs, run, bus, pool>>

\* d.item: ImmutableDict.__getattribute__.  A name with a leading
\* underscore or a name of the class goes to the ordinary lookup, which
\* finds the method of the class or raises AttributeError; any other name
\* is looked up in _data.
ImmutableDict_getattribute(item) ==
    LET ordinary == IF item \in class_attrs THEN <<"method", item>>
                    ELSE <<"raise", "AttributeError">>
        found == IF Chars(item)[1] = "_" \/ item \in class_attrs THEN ordinary
                 ELSE IF item \in DOMAIN imm.data THEN imm.data[item]
                 ELSE <<"raise", "KeyError">>
    IN /\ imm.initialized
       /\ imm' = [imm EXCEPT !.op = "getattr", !.name = item, !.out = found]
       /\ UNCHANGED <<configs, run, bus, pool>>

\* ImmutableDict.__getitem__(k, default=None): self._data.get(k, default)
ImmutableDict_getitem(d, k, default) == IF k \in DOMAIN d THEN d[k] ELSE default

\* The read operations of the mapping.  d[key], len(d) and list(d) are the
\* methods of the class; key in d and d.get(key, default) are the mixin
\* methods of collections.abc.Mapping, which call d[key] and take a
\* KeyError from it to mean that the key is missing.
Mapping(op, key, default) ==
    LET item == ImmutableDict_getitem(imm.data, key, NoneV)
        missing == item = <<"raise", "KeyError">>
        keys == Join([n \in 1..2 |-> IF <<"foo", "n">>[n] \in DOMAIN imm.data
                                     THEN <<"foo", "n">>[n] ELSE ""])
        out == CASE op = "getitem" -> item
                 [] op = "contains" -> <<"bool", IF missing THEN "False" ELSE "True">>
                 [] op = "get" -> IF missing THEN default ELSE item
                 [] op = "len" -> <<"int", Cardinality(DOMAIN imm.data)>>
                 [] op = "iter" -> <<"list", keys>>
    IN /\ imm.initialized
       /\ imm' = [imm EXCEPT !.op = op, !.name = key, !.arg = default, !.out = out]
       /\ UNCHANGED <<configs, run, bus, pool>>

\* An ImmutableDict made from up to two keyword arguments, then attribute
\* and item assignments, attribute reads and the reads of a mapping.
NextImm ==
    \/ \E kwargs \in UNION {[K -> {StrV("bar"), StrV("foo"), IntV("1")}] :
                                K \in SUBSET {"foo", "n"}} :
          ImmutableDict_init(kwargs)
    \/ \E key \in {"foo", "n", "dont_exist", "keys", "_hidden"} :
       \E value \in {StrV("bar"), StrV("not foo")} : ImmutableDict_setattr(key, value)
    \/ \E key \in {"foo", "n", "dont_exist"} :
       \E value \in {StrV("bar"), StrV("not foo")} : ImmutableDict_setitem(key, value)
    \/ \E item \in {"foo", "n", "dont_exist", "keys", "_hidden"} :
          ImmutableDict_getattribute(item)
    \/ \E op \in {"getitem", "contains", "get"} : \E key \in {"foo", "n", "dont_exist"} :
       \E default \in {NoneV, IntV("1")} : Mapping(op, key, default)
    \/ \E op \in {"len", "iter"} : Mapping(op, "", NoneV)

SpecImm == Init /\ [][NextImm]_vars

\* C20 as stated: every attribute assignment raises ImmutableError, every
\* item assignment raises TypeError, the mapping stays as constructed, and
\* reading as an attribute any name that is not a key raises KeyError.
C20_EveryMissingKeyRaises ==
    /\ imm.op = "setattr" => imm.out = <<"raise", "ImmutableError">>
    /\ imm.op = "setitem" => imm.out = <<"raise", "TypeError">>
    /\ imm.data = imm.given
    /\ (imm.op = "getattr" /\ imm.name \notin DOMAIN imm.given) =>
          imm.out = <<"raise", "KeyError">>

\* C20: every attribute assignment raises ImmutableError, every item
\* assignment raises TypeError, the mapping stays as constructed, and
\* reading as an attribute a name that is not a key, has no leading
\* underscore and is not a name of the class raises KeyError.
C20_ImmutableAfterConstruction ==
    /\ imm.op = "setattr" => imm.out = <<"raise", "ImmutableError">>
    /\ imm.op = "setitem" => imm.out = <<"raise", "TypeError">>
    /\ imm.data = imm.given
    /\ (/\ imm.op = "getattr"
        /\ imm.name \notin DOMAIN imm.given
        /\ Chars(imm.name)[1] # "_"
        /\ imm.name \notin class_attrs) => imm.out = <<"raise", "KeyError">>

\* An assignment to the attribute foo of ImmutableDict(foo='bar', n=1) was
\* refused.
C20_Witness ==
    /\ imm.op = "setattr"
    /\ imm.name = "foo"
    /\ imm.out = <<"raise", "ImmutableError">>
    /\ imm.given = [foo |-> StrV("bar"), n |-> IntV("1")]
    /\ imm.data = imm.given

(***************************************************************************)
(* get_prop_paths                                                          *)
(***************************************************************************)
\* The keys declared in the body of class c and, after the key of a nested
\* class, those of its body, each after the keys of prefix: the class
\* bodies read depth first.  An entry holds the path and the class and key
\* of the declaration.
RECURSIVE DeclaredPaths(_, _)
DeclaredPaths(c, prefix) ==
    LET RECURSIVE from(_)
        from(n) ==
            IF n > Len(Body(c)) THEN << >>
            ELSE LET e == Body(c)[n]
                     path == Append(prefix, EntryKey(e))
                 IN <<[path |-> path, cls |-> c, key |-> EntryKey(e)]>>
                    \o (IF e.kind = "class" THEN DeclaredPaths(e.cls, path) ELSE << >>)
                    \o from(n + 1)
    IN from(1)

\* C21: in every state get_prop_paths on the root yields one triple for
\* every declared property and every child node, depth first in
\* declaration order, the triple of a child node followed by those of its
\* subtree; the path of each is the key path from the root, its descriptor
\* the one declared under that key, the value of a leaf what a read of the
\* leaf returns.
C21_PathsDepthFirst ==
    \A i \in Inst :
        LET got == get_prop_paths(Cur(i), Obj(i, Conf), << >>)
            want == DeclaredPaths(Conf, << >>)
        IN /\ got.err = ""
           /\ Len(got.items) = Len(want)
           /\ \A n \in 1..Len(want) :
                 /\ got.items[n].path = want[n].path
                 /\ got.items[n].prop = Attr(want[n].cls, want[n].key)
                 /\ ~got.items[n].nestable =>
                       /\ got.items[n].value = reads[i][<<want[n].cls, want[n].key>>]
                       /\ got.items[n].path = PathOf(<<want[n].cls, want[n].key>>)

\* After an assignment to the property three levels deep, get_prop_paths
\* yields the five triples, the last with the value assigned.
C21_Witness ==
    LET got == get_prop_paths(Cur("cfg1"), Obj("cfg1", Conf), << >>)
    IN /\ last.op = "set" /\ last.err = ""
       /\ last.o = Obj("cfg1", TlsOpt) /\ last.val = IntV("22")
       /\ got.err = ""
       /\ Len(got.items) = Cardinality(Leaves) + Cardinality(Classes) - 1
       /\ got.items[Len(got.items)].path = <<"net", "tls_opt", "ver">>
       /\ got.items[Len(got.items)].value = IntV("22")

(***************************************************************************)
(* A leaf set to its default, then read_file                               *)
(***************************************************************************)
\* Assignments of its default to a leaf, each followed or not by read_file
\* of a file that defines the leaf.
NextReset ==
    \/ \E l \in Leaves : Set(Obj("cfg1", l[1]), l[2], DefaultOf(l))
    \/ \E t \in Files :
          /\ last.op = "set" /\ last.err = ""
          /\ PathOf(LastLeaf) \in DOMAIN t.v
          /\ ReadFile("cfg1", t)

SpecReset == Init /\ [][NextReset]_vars

\* C22: a leaf was assigned its default and the raw store holds it;
\* read_file of a file that defines the leaf then succeeds, stores the
\* file's value for the leaf, and the leaf reads it.
C22_SetToDefaultIsReplaced ==
    [][\A l \in Leaves :
          (/\ last.op = "set" /\ last.err = ""
           /\ LastLeaf = l
           /\ last.val = DefaultOf(l)
           /\ Stored("cfg1", l) = DefaultOf(l)
           /\ last'.op = "read_file"
           /\ PathOf(l) \in DOMAIN last'.tree.v) =>
              /\ last'.err = ""
              /\ PathOf(l) \in DOMAIN View(data'["cfg1"], heap').v
              /\ View(data'["cfg1"], heap').v[PathOf(l)] = last'.tree.v[PathOf(l)]
              /\ reads'["cfg1"][l] = Converted(l, last'.tree.v[PathOf(l)])
    ]_vars

\* The property three levels deep was assigned its default, 10, and a file
\* defining nothing but that property, as 22, was read: 22 is stored.
C22_Witness ==
    /\ last.op = "read_file" /\ last.err = ""
    /\ last.tree = TGraft(EmptyTree, "net",
                          TGraft(EmptyTree, "tls_opt", TLeaf(EmptyTree, "ver", IntV("22"))))
    /\ Stored("cfg1", <<TlsOpt, "ver">>) = IntV("22")
    /\ reads["cfg1"][<<TlsOpt, "ver">>] = IntV("22")

(***************************************************************************)
(* The defaults of the descriptors and a fresh instance                    *)
(***************************************************************************)
\* Two instances of the class: read_dict of a mapping the caller keeps on
\* either, reads and assignments of the nested properties, read_file and
\* save on the first, and a new instance in the place of the second.
NextFresh ==
    \/ \E l \in {<<Net, "addr">>, <<TlsOpt, "ver">>} : Get(Obj("cfg1", l[1]), l[2])
    \/ \E l \in {<<Net, "addr">>, <<TlsOpt, "ver">>} :
          \E v \in ValuesOf(l[2]) \ {DefaultOf(l)} : Set(Obj("cfg1", l[1]), l[2], v)
    \/ \E i \in Inst : \E t \in SharedDicts : HoldDict(i, t)
    \/ \E i \in Inst : ReadHeld(i)
    \/ \E t \in Files : DOMAIN t.v = {<<"net", "tls_opt", "ver">>} /\ ReadFile("cfg1", t)
    \/ Save("cfg1")
    \/ New("cfg2", "TOML")

SpecFresh == Init /\ [][NextFresh]_vars

C24_SetChangesOneProperty ==
    [][last'.op = "set" =>
          \A l \in Leaves :
             l # <<nodes[last'.o].cls, last'.name>> =>
                reads'[last'.o[1]][l] = reads[last'.o[1]][l]
    ]_vars

\* A nested property was assigned while the root-level property and the
\* property three levels deep held values that are not their defaults.
C24_Witness ==
    /\ last.op = "set" /\ last.err = ""
    /\ last.o = Obj("cfg1", Net) /\ last.name = "addr" /\ last.val = StrV("hello")
    /\ reads["cfg1"][<<Conf, "port">>] = IntV("22")
    /\ reads["cfg1"][<<TlsOpt, "ver">>] = IntV("22")
    /\ reads["cfg1"][<<Net, "addr">>] = StrV("hello")

(***************************************************************************)
(* Two trees that resolve alike                                            *)
(***************************************************************************)
\* The files of the two-tree scenario: the root-level property of type int
\* given another number, given its default as a number (TOML), given its
\* default as text (every value IniConfigSerializer.load returns is text),
\* and the grandchild's property given another number.
PairFiles ==
    {TLeaf(EmptyTree, "port", v) : v \in {IntV("22"), IntV("10"), StrV("10")}}
      \cup {t \in Files : DOMAIN t.v = {<<"net", "tls_opt", "ver">>}}

\* Two trees of one schema: each is assigned numbers and texts of numbers,
\* and each loads the files.
NextPair ==
    \/ \E i \in Inst : \E v \in {IntV("10"), IntV("22"), StrV("10"), StrV("22")} :
          Set(Obj(i, Conf), "port", v)
    \/ \E i \in Inst : \E t \in PairFiles : ReadFile(i, t)

SpecPair == Init /\ [][NextPair]_vars

\* Every value stored in the tree of root i is one that the coercion of its
\* property leaves as it is.
Typed(i) ==
    \A l \in Leaves : Stored(i, l) = undefined \/ Converted(l, Stored(i, l)) = Stored(i, l)

\* What every leaf of the tree of root i resolves to after i loads t.
AfterLoad(i, t) ==
    LET res == read_file(Conf, data[i], heap, [tree |-> t, err |-> ""])
    IN ReadsOf([data EXCEPT ![i] = res.data], res.heap, environ, globals, app)[i]

(***************************************************************************)
(* C25 as claimed: when every leaf resolves to the same value on two trees *)
(* of one schema, loading the same file leaves every leaf resolving to the *)
(* same value on both.                                                     *)
(***************************************************************************)
C25_SameResolvedSameLoad ==
    [][(/\ last'.op = "read_file"
        /\ last'.o = Obj("cfg2", Conf)
        /\ reads["cfg1"] = reads["cfg2"]) =>
           reads'["cfg2"] = AfterLoad("cfg1", last'.tree)
    ]_vars

(***************************************************************************)
(* C25, amended: when every leaf resolves to the same value on two trees   *)
(* of one schema and every value stored in either tree is unchanged by     *)
(* the coercion of its property, loading the same file leaves every leaf   *)
(* resolving to the same value on both, whether a tree stores a default or *)
(* stores nothing.                                                         *)
(***************************************************************************)
C25_SameTypedResolvedSameLoad ==
    [][(/\ last'.op = "read_file"
        /\ last'.o = Obj("cfg2", Conf)
        /\ reads["cfg1"] = reads["cfg2"]
        /\ Typed("cfg1")
        /\ Typed("cfg2")) =>
           reads'["cfg2"] = AfterLoad("cfg1", last'.tree)
    ]_vars

\* The second tree, which stored nothing, has loaded another number for a
\* property whose default the first tree stores as a number, and loading
\* the same file replaces it there too.
C25_Witness ==
    /\ last.op = "read_file"
    /\ last.o = Obj("cfg2", Conf)
    /\ last.tree = TLeaf(EmptyTree, "port", IntV("22"))
    /\ ~last.again
    /\ Stored("cfg1", <<Conf, "port">>) = IntV("10")
    /\ Stored("cfg2", <<Conf, "port">>) = IntV("22")
    /\ reads["cfg2"][<<Conf, "port">>] = IntV("22")
    /\ AfterLoad("cfg1", last.tree)[<<Conf, "port">>] = IntV("22")

(***************************************************************************)
(* EventDispatcher.  bus.subscribers is self._subscribers; bus.event,      *)
(* bus.stop and bus.num are the Event object of the dispatch in progress,  *)
(* bus.pos the position of the for loop in the list, and bus.calls the     *)
(* calls of subscribers the dispatch has made: the function, the name and  *)
(* num of the event it was given, and whether it has completed.            *)
(***************************************************************************)
MaxSubscribers == 3

\* self._subscribers[event].append(func)
subscribe(b, event, func) ==
    [b EXCEPT !.subscribers[event] = Append(@, func)]

\* A dispatch that goes on after a subscriber has set stop.
dispatch_awaited_nobreak(b) ==
    LET stop == b.stop \/ b.calls[Len(b.calls)].func = "on_stop"
        done == [b EXCEPT !.stop = stop, !.calls[Len(b.calls)].done = TRUE]
    IN [done EXCEPT !.num = @ + 1, !.pos = @ + 1, !.pc = "loop"]

\* dispatch from the return of the awaited subscriber: if action.stop:
\* break, else action.num += 1 and the loop goes on.
dispatch_awaited(b) ==
    LET stop == b.stop \/ b.calls[Len(b.calls)].func = "on_stop"
        done == [b EXCEPT !.stop = stop, !.calls[Len(b.calls)].done = TRUE]
    IN IF stop
       THEN [done EXCEPT !.pc = "returned"]
       ELSE [done EXCEPT !.num = @ + 1, !.pos = @ + 1, !.pc = "loop"]

\* dispatcher.subscribe(event, func), also while a dispatch is in progress
\* (the loop iterates over the list itself).
Subscribe(event, func) ==
    /\ Len(bus.subscribers[event]) < MaxSubscribers
    /\ bus' = IF bus.pc = "returned"
              THEN [subscribe(bus, event, func) EXCEPT !.pc = "idle", !.calls = << >>]
              ELSE subscribe(bus, event, func)
    /\ UNCHANGED <<configs, run, imm, pool>>

\* await dispatcher.dispatch(event): action = Event(event, payload), up to
\* the for loop.
Dispatch(event) ==
    /\ bus.pc \in {"idle", "returned"}
    /\ bus' = [bus EXCEPT !.pc = "loop", !.event = event, !.stop = FALSE,
                          !.num = 0, !.pos = 1, !.calls = << >>]
    /\ UNCHANGED <<configs, run, imm, pool>>

\* The for loop of dispatch: the next subscriber is called with the event,
\* or the list is exhausted and dispatch returns.
Subscriber ==
    /\ bus.pc = "loop"
    /\ LET subs == bus.subscribers[bus.event]
       IN bus' = IF bus.pos <= Len(subs)
                 THEN [bus EXCEPT !.pc = "awaiting",
                                  !.calls = Append(@, [func |-> subs[bus.pos],
                                                       event |-> bus.event,
                                                       num |-> bus.num,
                                                       done |-> FALSE])]
                 ELSE [bus EXCEPT !.pc = "returned"]
    /\ UNCHANGED <<configs, run, imm, pool>>

\* The awaited subscriber completes.
Awaited ==
    /\ bus.pc = "awaiting"
    /\ bus' = dispatch_awaited(bus)
    /\ UNCHANGED <<configs, run, imm, pool>>

NextBus ==
    \/ \E e \in BusEvents : \E f \in Funcs : Subscribe(e, f)
    \/ \E e \in BusEvents : Dispatch(e)
    \/ Subscriber
    \/ Awaited

SpecBus == Init /\ [][NextBus]_vars

(***************************************************************************)
(* C26: dispatch(event) calls the subscribers of that event one at a time  *)
(* in subscription order, each completed before the next is called; once a *)
(* subscriber has set stop no later subscriber is called; the num a        *)
(* subscriber sees is the number of subscribers that completed before it;  *)
(* no subscriber is called with, or for, another event; and a dispatch     *)
(* that returns without stop has called every subscriber of the event.     *)
(***************************************************************************)
C26_DispatchInOrderUntilStop ==
    bus.pc # "idle" =>
        LET subs == bus.subscribers[bus.event]
            calls == bus.calls
        IN /\ Len(calls) <= Len(subs)
           /\ \A n \in 1..Len(calls) :
                 /\ calls[n].func = subs[n]
                 /\ calls[n].event = bus.event
                 /\ calls[n].num = Cardinality({m \in 1..(n - 1) : calls[m].done})
                 /\ n < Len(calls) => calls[n].done /\ calls[n].func # "on_stop"
           /\ bus.pc = "returned" =>
                 /\ \A n \in 1..Len(calls) : calls[n].done
                 /\ \/ Len(calls) = Len(subs)
                    \/ Len(calls) > 0 /\ calls[Len(calls)].func = "on_stop"

\* A dispatch of send has returned after its second subscriber, which saw
\* num 1 and set stop; the third subscriber of send and the subscriber of
\* the other event were not called.
C26_Witness ==
    /\ bus.pc = "returned"
    /\ bus.event = "send"
    /\ bus.subscribers["send"] = <<"on_send", "on_stop", "on_send">>
    /\ bus.subscribers["other"] = <<"on_send">>
    /\ Len(bus.calls) = 2
    /\ bus.calls[2] = [func |-> "on_stop", event |-> "send", num |-> 1, done |-> TRUE]

(***************************************************************************)
(* An application that starts and stops its services itself                *)
(***************************************************************************)
MaxCalls == 3

\* await app.start_services(command) or await app.stop_services(command)
\* of an application that is not run with start: the tasks are created,
\* and the call is noted in the trace.
ServicesCall(method, command) ==
    /\ run.pc = "ready"
    /\ run.n < MaxCalls
    /\ LET r == [run EXCEPT !.command = command, !.pc = "gather", !.n = @ + 1,
                            !.trace = Append(@, <<method, command>>)]
       IN run' = IF method = "start_services" THEN start_services(r)
                 ELSE stop_services(r)
    /\ UNCHANGED <<configs, imm, bus, pool>>

\* await asyncio.gather(*services) returns when every task is done.
Gathered ==
    /\ run.pc = "gather"
    /\ \A k \in 1..Len(run.tasks) : run.tasks[k].at = "done"
    /\ run' = [run EXCEPT !.pc = "ready", !.tasks = << >>]
    /\ UNCHANGED <<configs, imm, bus, pool>>

NextServices ==
    \/ \E services \in {<<"dummy">>, <<"other">>} : Precept_init(services)
    \/ \E method \in {"start_services", "stop_services"} :
          \E command \in {"", "baz"} : ServicesCall(method, command)
    \/ \E k \in 1..Len(run.tasks) : Task(k)
    \/ Gathered

SpecServices == Init /\ [][NextServices]_vars

\* The start and stop bodies of service s entered so far, in order.
Bodies(s) ==
    LET body(e) == e \in {<<"enter", s \o "_start">>, <<"enter", s \o "_stop">>}
    IN SelectSeq(run.trace, body)

\* Some call made so far listed service s twice: among the services of the
\* application and again among those of the command.
ListedTwice(s) ==
    \E n \in 1..Len(run.trace) :
       /\ run.trace[n][1] \in {"start_services", "stop_services"}
       /\ LET listed == chain([run EXCEPT !.command = run.trace[n][2]])
          IN Cardinality({k \in 1..Len(listed) : listed[k] = s}) > 1

\* The flag of s is set exactly between the entry of its start and the
\* entry of its stop, a task that is yet to enter start (stop) belongs to
\* a service whose flag is not (is) set, and the bodies of s alternate,
\* beginning with start.
Alternates(s) ==
    /\ run.running[s] <=>
          (Bodies(s) # << >> /\ Bodies(s)[Len(Bodies(s))] = <<"enter", s \o "_start">>)
    /\ \A k \in 1..Len(run.tasks) :
          (run.tasks[k].service = s /\ run.tasks[k].at = "created") =>
             (run.running[s] <=> run.tasks[k].method = "stop")
    /\ \A n \in 1..Len(Bodies(s)) :
          Bodies(s)[n] = <<"enter", s \o (IF n % 2 = 1 THEN "_start" ELSE "_stop")>>

acquire(p, c) ==
    IF ~p.locked /\ p.waiters = << >>
    THEN [p EXCEPT !.locked = TRUE, !.calls[c].pc = "submitted"]
    ELSE [p EXCEPT !.waiters = Append(@, c), !.calls[c].pc = "waiting"]

\* self.lock.release(): the lock is free and the first waiter is woken.
release(p) ==
    IF p.waiters = << >>
    THEN [p EXCEPT !.locked = FALSE]
    ELSE [p EXCEPT !.locked = FALSE, !.calls[p.waiters[1]].pc = "woken"]

\* execute_with_lock submitting the function without the lock.
execute_with_lock_unlocked(p, c, raises) ==
    [p EXCEPT !.calls[c] = [pc |-> "submitted", lock |-> TRUE, raises |-> raises]]

\* execute_with_lock up to its first suspension: the lock is acquired, and
\* then self.execute hands the function to the thread pool.
execute_with_lock(p, c, raises) ==
    acquire([p EXCEPT !.calls[c] = [pc |-> "none", lock |-> TRUE, raises |-> raises]], c)

\* await executor.execute_with_lock(func)
ExecuteWithLock(c, raises) ==
    /\ pool.calls[c].pc = "none"
    /\ pool' = execute_with_lock(pool, c, raises)
    /\ UNCHANGED <<configs, run, imm, bus>>

\* await executor.execute(func): the function is handed to the thread pool.
Execute(c, raises) ==
    /\ pool.calls[c].pc = "none"
    /\ pool' = [pool EXCEPT !.calls[c] = [pc |-> "submitted", lock |-> FALSE,
                                          raises |-> raises]]
    /\ UNCHANGED <<configs, run, imm, bus>>

\* The woken waiter resumes in lock.acquire: it leaves the line and takes
\* the lock, and self.execute hands its function to the thread pool.
Acquired(c) ==
    /\ pool.calls[c].pc = "woken"
    /\ pool' = [pool EXCEPT !.locked = TRUE, !.waiters = Tail(@),
                            !.calls[c].pc = "submitted"]
    /\ UNCHANGED <<configs, run, imm, bus>>

\* A thread of the pool starts the function of call c, or the function
\* finishes (it returns or it raises).
Worker(c) ==
    /\ pool.calls[c].pc \in {"submitted", "running"}
    /\ pool' = [pool EXCEPT !.calls[c].pc =
                               IF @ = "submitted" THEN "running" ELSE "finished"]
    /\ UNCHANGED <<configs, run, imm, bus>>

\* The coroutine resumes after await self.execute(...): the exception of
\* the function leaves the call there; otherwise execute_with_lock
\* releases the lock, and the call returns.
Resumed(c) ==
    /\ pool.calls[c].pc = "finished"
    /\ pool' = IF pool.calls[c].raises
               THEN [pool EXCEPT !.calls[c].pc = "raised"]
               ELSE IF pool.calls[c].lock
                    THEN [release(pool) EXCEPT !.calls[c].pc = "returned"]
                    ELSE [pool EXCEPT !.calls[c].pc = "returned"]
    /\ UNCHANGED <<configs, run, imm, bus>>

NextPool ==
    \/ \E c \in Callers : \E raises \in BOOLEAN : ExecuteWithLock(c, raises)
    \/ \E c \in Callers : \E raises \in BOOLEAN : Execute(c, raises)
    \/ \E c \in Callers : Acquired(c)
    \/ \E c \in Callers : Worker(c)
    \/ \E c \in Callers : Resumed(c)

SpecPool == Init /\ [][NextPool]_vars

\* The execute_with_lock calls whose function has been handed to the
\* thread pool and whose coroutine has not resumed yet.
Submitted ==
    {c \in Callers : pool.calls[c].lock
                       /\ pool.calls[c].pc \in {"submitted", "running", "finished"}}

(***************************************************************************)
(* C28: for any number of concurrent execute_with_lock calls on one        *)
(* executor, the lock is held from before the submitted function starts    *)
(* until it has finished, so at most one function submitted through        *)
(* execute_with_lock is executing at any time.                             *)
(***************************************************************************)
C28_OneLockedFunctionAtATime ==
    /\ Submitted # {} => pool.locked
    /\ Cardinality(Submitted) <= 1
    /\ Cardinality({c \in Callers : pool.calls[c].lock /\ pool.calls[c].pc = "running"}) <= 1

\* Three calls at once: the function of an execute_with_lock call is
\* running, a second execute_with_lock call waits for the lock, and a
\* function submitted through execute runs at the same time.
C28_Witness ==
    /\ pool.calls[1] = [pc |-> "running", lock |-> TRUE, raises |-> FALSE]
    /\ pool.calls[2] = [pc |-> "waiting", lock |-> TRUE, raises |-> FALSE]
    /\ pool.calls[3] = [pc |-> "running", lock |-> FALSE, raises |-> FALSE]
    /\ pool.locked
    /\ pool.waiters = <<2>>

(***************************************************************************)
(* C29: every execute_with_lock call releases the lock once its function   *)
(* has finished, whether the function returned or raised: whenever no      *)
(* execute_with_lock call is between acquiring the lock and resuming after *)
(* its function, the lock is free (so that a later call can acquire it).   *)
(***************************************************************************)
C29_LockReleasedWhenFinished ==
    Submitted = {} => ~pool.locked

(***************************************************************************)
(* C30: on an ImmutableDict, membership, item access, get, iteration and   *)
(* len agree with the construction arguments: key in d is true exactly for *)
(* the keys supplied at construction, d[key] and d.get(key) return the     *)
(* supplied value, d.get(key, default) returns default for every key that  *)
(* was not supplied, and iteration and len give the supplied keys and      *)
(* their number.                                                           *)
(***************************************************************************)
C30_MappingAgreesWithArguments ==
    LET supplied == imm.name \in DOMAIN imm.given
    IN /\ imm.op = "contains" =>
             imm.out = <<"bool", IF supplied THEN "True" ELSE "False">>
       /\ (imm.op \in {"getitem", "get"} /\ supplied) => imm.out = imm.given[imm.name]
       /\ (imm.op = "get" /\ ~supplied) => imm.out = imm.arg
       /\ imm.op = "len" => imm.out = <<"int", Cardinality(DOMAIN imm.given)>>
       /\ imm.op = "iter" =>
             imm.out = <<"list", Join([n \in 1..2 |->
                                         IF <<"foo", "n">>[n] \in DOMAIN imm.given
                                         THEN <<"foo", "n">>[n] ELSE ""])>>

====
